---------------------------- MODULE Spec2Model ----------------------------
(***************************************************************************)
(* Model of the dual-backend vector store (src/src/vectorstore.py, whose   *)
(* DualVectorStore is repeated verbatim in src/src/vectorstore_async.py)   *)
(* and of the multimedia association index (src/src/multimedia_manager.py).*)
(*                                                                         *)
(* Optional values (Python's Optional[T]) are sequences of length <= 1:    *)
(* None is <<>> and a present value x is <<x>>.                            *)
(***************************************************************************)
EXTENDS Integers, Sequences, FiniteSets, Bags, TLC

VARIABLES
    chroma,          \* contents of the Local (Chroma) collection: Seq(chunk)
    qdrant,          \* contents of the Remote (Qdrant) collection: Seq(chunk)
    qdrant_online,   \* DualVectorStore._qdrant_online
    qdrant_exists,   \* whether the Remote collection exists (client.collection_exists)
    initRaised,      \* whether QdrantVectorStoreImp(config) raised in __init__
    last,            \* the last DualVectorStore call: arguments, adapter calls, outcome
    remoteSearchRaised, \* history: Remote's search has raised in some search call
    everFailed,      \* history: a backend call has raised, in __init__ or in a call since
    cleared,         \* history: the chunks the last clear_all_data found in the collections
                     \* it reaches and the failures of its backend calls, while no
                     \* call but one get_collection_stats followed it
    associations,    \* MultimediaManager.associations: Seq(association)
    lastMedia,       \* the last MultimediaManager call: arguments and result, and for
                     \* remove_association the associations it found (index)
    config_file,     \* the file at MultimediaManager.config_file, None while absent
    savedFrom,       \* history: the associations save_config wrote, while the file is as saved
    lastQuery,       \* the last RAGEngine.query call: arguments, the index it read, result
    writers,         \* two MultimediaManager instances on one file: each one's
                     \* associations and its position in save_config
    shared_file,     \* the file the two writers save to: its size and what it holds
    lastSave,        \* history: the writer whose save_config returned last, and its list
    max_history,     \* Config.max_history of the ChatInterface
    chat_history,    \* ChatInterface.chat_history: Seq(message)
    lastChat,        \* the last ChatInterface call: arguments, what chat_query was
                     \* handed, the history it found and its outcome
    pool,            \* the jobs the store's ThreadPoolExecutor is running, a bag: of
                     \* each the DualVectorStore method, the backend call it is to
                     \* make next, and what its calls so far gave
    overlapped,      \* history: a job was started while another one was running
    submitted,       \* history: the number of jobs handed to the executor
    inflight         \* the RAGEngineAsync.query calls that are awaiting, a bag: of
                     \* each what it awaits, its arguments, the chunks found and
                     \* the index its enrichment read

vars == <<chroma, qdrant, qdrant_online, qdrant_exists, initRaised, last, remoteSearchRaised, everFailed,
          cleared,
          associations, lastMedia, config_file, savedFrom, lastQuery,
          writers, shared_file, lastSave, max_history, chat_history, lastChat,
          pool, overlapped, submitted, inflight>>

dualVars == <<chroma, qdrant, qdrant_online, qdrant_exists, initRaised, last, remoteSearchRaised,
              everFailed, cleared>>
mediaVars == <<associations, lastMedia, config_file, savedFrom, lastQuery>>
writerVars == <<writers, shared_file, lastSave>>
chatVars == <<max_history, chat_history, lastChat>>
asyncVars == <<pool, overlapped, submitted, inflight>>

\* what a call on the in-memory index leaves alone
outsideIndex == <<dualVars, config_file, savedFrom, lastQuery, writerVars, chatVars, asyncVars>>

-----------------------------------------------------------------------------
(* Bounds of the model *)

\* most chunks a backend collection holds
MaxChunks == 3

\* most associations the multimedia index holds
MaxAssoc == 2

\* Config.default_k
default_k == 6

\* limit_scan of QdrantVectorStoreImp.get_collection_stats
limit_scan == 5000

-----------------------------------------------------------------------------
(* Generic helpers *)

None == <<>>
Some(x) == <<x>>

Min(a, b) == IF a < b THEN a ELSE b
Max(a, b) == IF a > b THEN a ELSE b

\* set(s) of a list s
Range(s) == {s[i] : i \in 1..Len(s)}

\* dict.get(key, default) on an optional entry
Get(entry, default) == IF entry = None THEN default ELSE entry[1]

-----------------------------------------------------------------------------
(* Inputs: PDF documents.  The text splitter is an external collaborator;  *)
(* a page is given by its number and by the number of chunks its text      *)
(* splits into.                                                            *)

DocA == [filename |-> "a.pdf", pages |-> << [page_number |-> 1, nchunks |-> 1] >>]
DocB == [filename |-> "b.pdf",
         pages |-> << [page_number |-> 1, nchunks |-> 1], [page_number |-> 2, nchunks |-> 1] >>]
DocE == [filename |-> "e.pdf", pages |-> << [page_number |-> 1, nchunks |-> 0] >>]

\* the pdf_documents arguments of add_documents
DocLists == { <<>>, <<DocA>>, <<DocB>>, <<DocA, DocB>>, <<DocE>> }

\* the file names of delete_document_by_name and of search filters and queries
FileNames == {"a.pdf", "b.pdf", "e.pdf"}

\* lexicographic order of the file names (Python's sorted on str)
NameRank(f) == CASE f = "a.pdf" -> 1 [] f = "b.pdf" -> 2 [] OTHER -> 3

RECURSIVE SortedNames(_)
\* sorted(list(S)) for a set S of file names
SortedNames(S) ==
    IF S = {} THEN <<>>
    ELSE LET m == CHOOSE x \in S : \A y \in S : NameRank(x) <= NameRank(y)
         IN <<m>> \o SortedNames(S \ {m})

\* the k arguments of search: None, 0 (falsy, so default_k is used), 1, 2
Ks == {None, Some(0), Some(1), Some(2)}

\* the filter_dict arguments of search: None or {"source": f}
Filters == {None} \cup {Some(f) : f \in {"a.pdf", "b.pdf"}}

LocalTag == "ChromaDB (Local)"
RemoteTag == "Qdrant (Server)"

-----------------------------------------------------------------------------
(* BaseVectorStore *)

RECURSIVE PageChunks(_, _, _)
\* the chunks of one page: chunk_id i = 0 .. nchunks-1
PageChunks(filename, page, i) ==
    IF i >= page.nchunks THEN <<>>
    ELSE << [source |-> filename, page |-> page.page_number, chunk_id |-> i] >>
         \o PageChunks(filename, page, i + 1)

RECURSIVE DocChunks(_, _)
DocChunks(filename, pages) ==
    IF pages = <<>> THEN <<>>
    ELSE PageChunks(filename, Head(pages), 0) \o DocChunks(filename, Tail(pages))

\* BaseVectorStore._create_chunks
create_chunks(pdf_doc) == DocChunks(pdf_doc.filename, pdf_doc.pages)

RECURSIVE AllChunks(_)
\* the all_chunks list the adapters' add_documents build
AllChunks(pdf_documents) ==
    IF pdf_documents = <<>> THEN <<>>
    ELSE create_chunks(Head(pdf_documents)) \o AllChunks(Tail(pdf_documents))


-----------------------------------------------------------------------------
(* The backends.  Embedding and nearest-neighbour ranking are external     *)
(* collaborators: a chunk is similar to a query that names its document,   *)
(* and chunks of equal similarity keep the collection's order.  A backend  *)
(* call either completes or raises; a call that raises leaves the          *)
(* collection as it was.                                                   *)

\* the query texts of search
Queries == {"a.pdf", "b.pdf"}

\* similarity_search of either backend: filter, rank, cut at k
similarity_search(store, query, k, filter_dict) ==
    LET Match(c) == filter_dict = None \/ c.source = filter_dict[1]
        Near(c) == c.source = query
        Far(c) == c.source # query
        matching == SelectSeq(store, Match)
        ranked == SelectSeq(matching, Near) \o SelectSeq(matching, Far)
    IN SubSeq(ranked, 1, Min(k, Len(ranked)))

\* doc.metadata["_debug_origin"] = tag, for every result
Stamp(results, tag) ==
    [i \in 1..Len(results) |->
        [source |-> results[i].source, page |-> results[i].page,
         chunk_id |-> results[i].chunk_id, origin |-> tag]]

\* k = k or self.config.default_k
EffectiveK(k) == IF k = None \/ k[1] = 0 THEN default_k ELSE k[1]

\* ChromaDBVectorStore.search
Chroma_search(store, query, k, filter_dict, fails) ==
    IF fails THEN [raised |-> TRUE, ret |-> None]
    ELSE [raised |-> FALSE,
          ret |-> Some(Stamp(similarity_search(store, query, EffectiveK(k), filter_dict),
                             LocalTag))]

\* QdrantVectorStoreImp.search
Qdrant_search(store, query, k, filter_dict, fails) ==
    IF fails THEN [raised |-> TRUE, ret |-> None]
    ELSE [raised |-> FALSE,
          ret |-> Some(Stamp(similarity_search(store, query, EffectiveK(k), filter_dict),
                             RemoteTag))]

\* ChromaDBVectorStore.add_documents / QdrantVectorStoreImp.add_documents:
\* the backend is called, and so can raise, only when there are chunks
Adapter_add_documents(store, pdf_documents, fails) ==
    LET all_chunks == AllChunks(pdf_documents)
    IN IF all_chunks # <<>> /\ fails
       THEN [raised |-> TRUE, ret |-> None, store |-> store]
       ELSE [raised |-> FALSE,
             ret |-> Some([total_documents |-> Len(pdf_documents),
                           total_chunks |-> Len(all_chunks)]),
             store |-> store \o all_chunks]

\* the source values of a sequence of stored chunks
SourcesOf(chunks) == {chunks[i].source : i \in 1..Len(chunks)}

\* ChromaDBVectorStore.get_collection_stats, from what collection.count() and,
\* when the count is positive, collection.get() returned: a backend failure is
\* caught and answered with an error record that has no total_chunks
Chroma_stats(count, data, fails) ==
    IF fails
    THEN [total_chunks |-> None, unique_sources |-> None, sources |-> <<>>,
          backend |-> "ChromaDB", error |-> Some("error")]
    ELSE LET unique_sources == IF count > 0 THEN SourcesOf(data) ELSE {}
         IN [total_chunks |-> Some(count),
             unique_sources |-> Some(Cardinality(unique_sources)),
             sources |-> SortedNames(unique_sources),
             backend |-> "ChromaDB (Local)", error |-> None]

\* ChromaDBVectorStore.get_collection_stats on a collection that no other call
\* changes meanwhile
Chroma_get_collection_stats(store, fails) == Chroma_stats(Len(store), store, fails)

\* QdrantVectorStoreImp.get_collection_stats, from what collection_exists,
\* get_collection and, when the count is positive, scroll returned: a
\* collection that does not exist is answered with zeros under the backend
\* name "Qdrant"; otherwise the sources are those of the first
\* min(count, limit_scan) points
Qdrant_stats(exists, count, points, fails) ==
    IF fails
    THEN [total_chunks |-> None, unique_sources |-> None, sources |-> <<>>,
          backend |-> "Qdrant", error |-> Some("error")]
    ELSE IF ~exists
    THEN [total_chunks |-> Some(0), unique_sources |-> Some(0), sources |-> <<>>,
          backend |-> "Qdrant", error |-> None]
    ELSE LET scanned == IF count > 0
                        THEN SubSeq(points, 1, Min(Min(count, limit_scan), Len(points)))
                        ELSE <<>>
         IN [total_chunks |-> Some(count),
             unique_sources |-> Some(Cardinality(SourcesOf(scanned))),
             sources |-> SortedNames(SourcesOf(scanned)),
             backend |-> "Qdrant (Server)", error |-> None]

\* QdrantVectorStoreImp.get_collection_stats on a collection that no other
\* call changes meanwhile
Qdrant_get_collection_stats(store, exists, fails) ==
    Qdrant_stats(exists, Len(store), store, fails)

\* Adapter_delete_document_by_name with a fault: True only when a chunk matched
Adapter_delete_document_by_name_IfMatched(store, filename, fails) ==
    LET Keep(c) == c.source # filename
    IN IF fails THEN [ret |-> FALSE, store |-> store]
       ELSE [ret |-> SelectSeq(store, Keep) # store, store |-> SelectSeq(store, Keep)]

\* ChromaDBVectorStore.delete_document_by_name / QdrantVectorStoreImp.delete_document_by_name:
\* True when the backend delete did not raise, whatever it matched
Adapter_delete_document_by_name(store, filename, fails) ==
    LET Keep(c) == c.source # filename
    IN IF fails THEN [ret |-> FALSE, store |-> store]
       ELSE [ret |-> TRUE, store |-> SelectSeq(store, Keep)]

\* ChromaDBVectorStore.clear_all_data / QdrantVectorStoreImp.clear_all_data:
\* the collection is deleted; a backend failure is swallowed
Adapter_clear_all_data(store, fails) == IF fails THEN store ELSE <<>>

\* one adapter invocation, as recorded in a call's trace: raised says that the
\* adapter's method raised, failed that the backend call inside it did (the
\* adapters' get_collection_stats, delete_document_by_name and clear_all_data
\* catch that themselves and never raise)
Call(backend, op, raised, failed) ==
    [backend |-> backend, op |-> op, raised |-> raised, failed |-> failed]


-----------------------------------------------------------------------------
(* DualVectorStore.  Every operation is a function of the flag, the two    *)
(* collections, the arguments and of which backend calls fail; it yields   *)
(* the returned value (None when an exception escapes), the adapter calls  *)
(* made, in order, and the new flag and collections.                       *)
(*                                                                         *)
(* The adapters' get_collection_stats, delete_document_by_name and         *)
(* clear_all_data catch every exception themselves, so the try blocks      *)
(* DualVectorStore puts around those calls never see one; only search and  *)
(* add_documents of an adapter can raise.                                  *)

\* str(e) of a caught exception
ErrText == "error"

\* Dual_init with a fault: the flag is set before the adapter is constructed
Dual_init_AlwaysOnline(raises) == TRUE

\* DualVectorStore.__init__: the flag after trying to construct the Remote adapter
Dual_init(raises) == ~raises

\* SearchFlagAfter with a fault: the except block clears the flag
SearchFlagAfter_MarksOffline(online, qdrantRaised) == online /\ ~qdrantRaised

\* the flag after search's except block, which only logs
SearchFlagAfter(online, qdrantRaised) == online

\* SearchRemoteAnswer with a fault: Local's results are appended to Remote's
SearchRemoteAnswer_Merged(remoteRet, localRet) ==
    IF localRet = None THEN remoteRet ELSE Some(remoteRet[1] \o localRet[1])

\* the result search hands back once Remote's search has returned
SearchRemoteAnswer(remoteRet, localRet) == remoteRet

\* SearchNeedsLocal with a fault: the except block swallows without falling back
SearchNeedsLocal_NoFallback(online, qdrantRaised) == ~online

\* whether search goes on to Local: Remote offline, or Remote raised
SearchNeedsLocal(online, qdrantRaised) == ~online \/ qdrantRaised

\* DualVectorStore.search
Dual_search(online, c, q, exists, query, k, filter_dict, cFails, qFails) ==
    LET qr == Qdrant_search(q, query, k, filter_dict, qFails)
        cr == Chroma_search(c, query, k, filter_dict, cFails)
        qcall == IF online THEN << Call("qdrant", "search", qr.raised, qr.raised) >> ELSE <<>>
        flag == IF online THEN SearchFlagAfter(online, qr.raised) ELSE online
    IN IF SearchNeedsLocal(online, qr.raised)
       THEN [ret |-> cr.ret, escaped |-> cr.raised,
             calls |-> qcall \o << Call("chroma", "search", cr.raised, cr.raised) >>,
             online |-> flag, chroma |-> c, qdrant |-> q, exists |-> exists]
       ELSE [ret |-> SearchRemoteAnswer(qr.ret, cr.ret), escaped |-> FALSE,
             calls |-> qcall,
             online |-> flag, chroma |-> c, qdrant |-> q, exists |-> exists]

\* AddAttemptsRemote with a fault: Remote's write sits inside Local's try block
AddAttemptsRemote_AfterLocalOnly(online, chromaRaised) == online /\ ~chromaRaised

\* whether add_documents goes on to Remote after Local's attempt
AddAttemptsRemote(online, chromaRaised) == online

\* DualVectorStore.add_documents
Dual_add_documents(online, c, q, exists, pdf_documents, cFails, qFails) ==
    LET ca == Adapter_add_documents(c, pdf_documents, cFails)
        qa == Adapter_add_documents(q, pdf_documents, qFails)
        remote == AddAttemptsRemote(online, ca.raised)
        afterChroma == IF ca.raised THEN None ELSE Some(ca.ret[1].total_chunks)
        stats == [backend |-> "Dual", details |-> <<>>,
                  chroma |-> IF ca.raised THEN ErrText ELSE "OK",
                  qdrant |-> IF ~remote THEN "Offline"
                             ELSE IF qa.raised THEN ErrText ELSE "OK",
                  total_chunks |-> IF remote /\ ~qa.raised
                                   THEN Some(qa.ret[1].total_chunks)
                                   ELSE afterChroma]
    IN [ret |-> Some(stats), escaped |-> FALSE,
        calls |-> << Call("chroma", "add_documents", ca.raised, ca.raised) >>
                  \o (IF remote THEN << Call("qdrant", "add_documents", qa.raised, qa.raised) >>
                      ELSE <<>>),
        online |-> online, chroma |-> ca.store,
        qdrant |-> IF remote THEN qa.store ELSE q,
        exists |-> exists \/ (remote /\ qa.store # q)]

\* MergeTotal with a fault: the two counts are added
MergeTotal_Sum(chromaCount, qdrantCount) == chromaCount + qdrantCount

\* total_chunks of the merged stats
MergeTotal(chromaCount, qdrantCount) == Max(chromaCount, qdrantCount)

\* sources of the merged stats: sorted(list(c_sources | q_sources))
MergeSources(c_sources, q_sources) == SortedNames(c_sources \cup q_sources)

\* DualVectorStore.get_collection_stats, from what the two adapters returned
merge_stats(online, chroma_answer, qdrant_answer, cFails, qFails) ==
    LET chroma_stats == ("status" :> "online") @@ chroma_answer
        qdrant_stats ==
            IF online
            THEN ("status" :> "online") @@ qdrant_answer
            ELSE [status |-> "offline", total_chunks |-> Some(0), sources |-> <<>>]
        all_sources == MergeSources(Range(chroma_stats.sources), Range(qdrant_stats.sources))
        total_chunks == MergeTotal(Get(chroma_stats.total_chunks, 0),
                                   Get(qdrant_stats.total_chunks, 0))
        backend_name == IF qdrant_stats.status = "online"
                        THEN "Dual (Hibrido)" ELSE "Dual (Chroma Fallback)"
    IN [ret |-> Some([total_chunks |-> total_chunks,
                      unique_sources |-> Len(all_sources),
                      sources |-> all_sources,
                      backend |-> backend_name,
                      details |-> [chroma |-> chroma_stats, qdrant |-> qdrant_stats]]),
        escaped |-> FALSE,
        calls |-> << Call("chroma", "get_collection_stats", FALSE, cFails) >>
                  \o (IF online THEN << Call("qdrant", "get_collection_stats", FALSE, qFails) >>
                      ELSE <<>>)]

\* DualVectorStore.get_collection_stats
Dual_get_collection_stats(online, c, q, exists, cFails, qFails) ==
    merge_stats(online, Chroma_get_collection_stats(c, cFails),
                Qdrant_get_collection_stats(q, exists, qFails), cFails, qFails)
    @@ [online |-> online, chroma |-> c, qdrant |-> q, exists |-> exists]

\* DeleteAttemptsRemote with a fault: Remote's delete is skipped once Local's failed
DeleteAttemptsRemote_IfLocalOk(online, res_chroma) == online /\ res_chroma

\* whether delete_document_by_name goes on to Remote after Local's attempt
DeleteAttemptsRemote(online, res_chroma) == online

\* the value delete_document_by_name returns
DeleteResult(res_chroma, res_qdrant) == res_chroma \/ res_qdrant

\* DualVectorStore.delete_document_by_name
Dual_delete_document_by_name(online, c, q, exists, filename, cFails, qFails) ==
    LET cd == Adapter_delete_document_by_name(c, filename, cFails)
        qd == Adapter_delete_document_by_name(q, filename, qFails)
        remote == DeleteAttemptsRemote(online, cd.ret)
        res_qdrant == IF remote THEN qd.ret ELSE FALSE
    IN [ret |-> Some(DeleteResult(cd.ret, res_qdrant)), escaped |-> FALSE,
        calls |-> << Call("chroma", "delete_document_by_name", FALSE, cFails) >>
                  \o (IF remote THEN << Call("qdrant", "delete_document_by_name", FALSE, qFails) >>
                      ELSE <<>>),
        online |-> online, chroma |-> cd.store,
        qdrant |-> IF remote THEN qd.store ELSE q, exists |-> exists]

\* ClearAttemptsRemote with a fault: clear_all_data stops after Local
ClearAttemptsRemote_Never(online) == FALSE

\* whether clear_all_data goes on to Remote
ClearAttemptsRemote(online) == online

\* DualVectorStore.clear_all_data
Dual_clear_all_data(online, c, q, exists, cFails, qFails) ==
    [ret |-> Some("None"), escaped |-> FALSE,
     calls |-> << Call("chroma", "clear_all_data", FALSE, cFails) >>
               \o (IF ClearAttemptsRemote(online)
                   THEN << Call("qdrant", "clear_all_data", FALSE, qFails) >> ELSE <<>>),
     online |-> online, chroma |-> Adapter_clear_all_data(c, cFails),
     qdrant |-> IF ClearAttemptsRemote(online) THEN Adapter_clear_all_data(q, qFails) ELSE q,
     exists |-> exists /\ ~(ClearAttemptsRemote(online) /\ ~qFails)]


-----------------------------------------------------------------------------
(* The state machine of one DualVectorStore instance.  The dual-store      *)
(* actions leave the multimedia index alone.                               *)

\* the record of a call: the operation, its arguments, the flag when it was
\* made, and what Dual_<op> says of its outcome
Record(op, args, online, out) ==
    [op |-> op, args |-> args, online |-> online,
     ret |-> out.ret, escaped |-> out.escaped, calls |-> out.calls]

NoCall == [op |-> "none", args |-> <<>>, online |-> FALSE,
           ret |-> None, escaped |-> FALSE, calls |-> <<>>]

\* the adapter calls of one backend in a call's trace
CallsTo(calls, backend) == {i \in 1..Len(calls) : calls[i].backend = backend}

\* the backend's adapter was invoked and raised
RaisedIn(calls, backend) == \E i \in CallsTo(calls, backend) : calls[i].raised

\* the backend's adapter was invoked and the backend call inside it failed
FailedIn(calls, backend) == \E i \in CallsTo(calls, backend) : calls[i].failed

Apply(op, args, out) ==
    /\ chroma' = out.chroma
    /\ qdrant' = out.qdrant
    /\ qdrant_online' = out.online
    /\ qdrant_exists' = out.exists
    /\ last' = Record(op, args, qdrant_online, out)
    /\ remoteSearchRaised' =
           (remoteSearchRaised \/ (op = "search" /\ RaisedIn(out.calls, "qdrant")))
    /\ everFailed' =
           (everFailed \/ \E i \in 1..Len(out.calls) : out.calls[i].raised \/ out.calls[i].failed)
    /\ cleared' =
           IF op = "clear_all_data"
           THEN Some([chunks |-> Len(chroma) + (IF qdrant_online THEN Len(qdrant) ELSE 0),
                      chroma_failed |-> FailedIn(out.calls, "chroma"),
                      qdrant_failed |-> FailedIn(out.calls, "qdrant")])
           ELSE IF op = "get_collection_stats" /\ last.op = "clear_all_data"
           THEN cleared
           ELSE None
    /\ UNCHANGED <<initRaised, mediaVars, writerVars, chatVars, asyncVars>>

\* DualVectorStore(config): both collections start empty
DualInit ==
    /\ chroma = <<>>
    /\ qdrant = <<>>
    /\ initRaised \in BOOLEAN
    /\ qdrant_online = Dual_init(initRaised)
    /\ qdrant_exists = TRUE
    /\ last = NoCall
    /\ remoteSearchRaised = FALSE
    /\ everFailed = initRaised
    /\ cleared = None

Search ==
    \E query \in Queries, k \in Ks, filter_dict \in Filters, cFails \in BOOLEAN, qFails \in BOOLEAN :
        Apply("search", [query |-> query, k |-> k, filter_dict |-> filter_dict],
              Dual_search(qdrant_online, chroma, qdrant, qdrant_exists, query, k, filter_dict, cFails, qFails))

\* a collection grows to MaxChunks chunks at most
Fits(out) == Len(out.chroma) <= MaxChunks /\ Len(out.qdrant) <= MaxChunks

AddDocuments ==
    \E pdf_documents \in DocLists, cFails \in BOOLEAN, qFails \in BOOLEAN :
        LET out == Dual_add_documents(qdrant_online, chroma, qdrant, qdrant_exists,
                                      pdf_documents, cFails, qFails)
        IN Fits(out) /\ Apply("add_documents", [pdf_documents |-> pdf_documents], out)

GetCollectionStats ==
    \E cFails \in BOOLEAN, qFails \in BOOLEAN :
        Apply("get_collection_stats", <<>>,
              Dual_get_collection_stats(qdrant_online, chroma, qdrant, qdrant_exists, cFails, qFails))

DeleteDocumentByName ==
    \E filename \in FileNames, cFails \in BOOLEAN, qFails \in BOOLEAN :
        Apply("delete_document_by_name", [filename |-> filename],
              Dual_delete_document_by_name(qdrant_online, chroma, qdrant, qdrant_exists, filename, cFails, qFails))

ClearAllData ==
    \E cFails \in BOOLEAN, qFails \in BOOLEAN :
        Apply("clear_all_data", <<>>,
              Dual_clear_all_data(qdrant_online, chroma, qdrant, qdrant_exists, cFails, qFails))


-----------------------------------------------------------------------------
(* MultimediaManager.  Text is a sequence of one-character strings, so     *)
(* that a path can be taken apart.                                         *)

Img1 == [type |-> "image", url |-> "u1", title |-> Some("t1")]
Vid2 == [type |-> "video", url |-> "u2", title |-> None]

\* the media_items arguments of add_association
MediaLists == { <<Img1>>, <<Vid2, Img1>> }

\* the document_name arguments of add_association: m, d/p/m, n, d/n
DocNames == { <<"m">>, <<"d", "/", "p", "/", "m">>, <<"n">>, <<"d", "/", "n">> }

\* the document_name arguments of lookups: the above, and m/ and p
QueryNames == DocNames \cup { <<"m", "/">>, <<"p">> }

\* the page_number arguments: None, 0, 1
Pages == {None, Some(0), Some(1)}

RECURSIVE StripSlashes(_)
\* a path without its trailing separators
StripSlashes(path) ==
    IF path # <<>> /\ path[Len(path)] = "/"
    THEN StripSlashes(SubSeq(path, 1, Len(path) - 1))
    ELSE path

RECURSIVE LastComponent(_)
\* the text after the last separator
LastComponent(path) ==
    IF path = <<>> \/ path[Len(path)] = "/" THEN <<>>
    ELSE LastComponent(SubSeq(path, 1, Len(path) - 1)) \o << path[Len(path)] >>

\* PathName with a fault: the name is compared as given, as find_media_by_document_old does
PathName_AsGiven(path) == path

\* Path(path).name: the final component of a path
PathName(path) == LastComponent(StripSlashes(path))

\* PageMatches with a fault: an association without a page matches no explicit page
PageMatches_NoWildcard(assoc_page, page_number) ==
    page_number = None \/ (assoc_page # None /\ assoc_page[1] = page_number[1])

\* match_page of find_media_by_document
PageMatches(assoc_page, page_number) ==
    IF page_number = None THEN TRUE
    ELSE IF assoc_page = None THEN TRUE
    ELSE assoc_page[1] = page_number[1]

RECURSIVE FindLoop(_, _, _)
\* the loop of find_media_by_document over the associations, in order
FindLoop(assocs, target_name, page_number) ==
    IF assocs = <<>> THEN <<>>
    ELSE LET assoc == Head(assocs)
             rest == FindLoop(Tail(assocs), target_name, page_number)
         IN IF PathName(assoc.document_name) = target_name
               /\ PageMatches(assoc.page_number, page_number)
            THEN assoc.media_items \o rest
            ELSE rest

\* MultimediaManager.find_media_by_document
find_media_by_document(assocs, document_name, page_number) ==
    FindLoop(assocs, PathName(document_name), page_number)

\* MediaAssociation(...), with __post_init__ and add_association's keywords or []
MediaAssociation(document_name, media_items, page_number, section, keywords) ==
    [document_name |-> document_name, page_number |-> page_number,
     section |-> section, keywords |-> Get(keywords, <<>>),
     media_items |-> media_items]

\* add_association with a fault: an association of the same document, page and
\* section is replaced by the new one
add_association_Merging(assocs, document_name, media_items, page_number, section, keywords) ==
    LET new == MediaAssociation(document_name, media_items, page_number, section, keywords)
        Same(i) == /\ assocs[i].document_name = document_name
                   /\ assocs[i].page_number = page_number
                   /\ assocs[i].section = section
    IN IF \E i \in 1..Len(assocs) : Same(i)
       THEN [i \in 1..Len(assocs) |-> IF Same(i) THEN new ELSE assocs[i]]
       ELSE Append(assocs, new)

\* MultimediaManager.add_association
add_association(assocs, document_name, media_items, page_number, section, keywords) ==
    Append(assocs, MediaAssociation(document_name, media_items, page_number, section, keywords))

NoMediaCall == [op |-> "none", args |-> <<>>, ret |-> <<>>]

NoQuery == [op |-> "none", args |-> <<>>, index |-> <<>>, ret |-> <<>>]

\* MultimediaManager(config_file) with no file to load; no query made yet
MediaInit ==
    /\ associations = <<>>
    /\ lastMedia = NoMediaCall
    /\ config_file = None
    /\ savedFrom = None
    /\ lastQuery = NoQuery

\* a writer that is not inside save_config
IdleWriter == [associations |-> <<>>, pc |-> "idle", data |-> <<>>]

\* the file the writers share, while it does not exist
NoFile == [size |-> 0, holds |-> None]

\* Config.max_history as the dataclass declares it
default_max_history == 10

NoChat == [op |-> "none", message |-> <<>>, handed |-> <<>>, found |-> <<>>,
           raised |-> FALSE]

\* no job in the pool and no query awaiting
AsyncIdle ==
    /\ pool = EmptyBag
    /\ overlapped = FALSE
    /\ submitted = 0
    /\ inflight = EmptyBag

\* no second writer at work, no conversation held, nothing running
RestIdle ==
    /\ writers = [w \in {1, 2} |-> IdleWriter]
    /\ shared_file = NoFile
    /\ lastSave = None
    /\ max_history = default_max_history
    /\ chat_history = <<>>
    /\ lastChat = NoChat
    /\ AsyncIdle

\* one DualVectorStore instance and its calls; the multimedia index stays as built
Init == DualInit /\ MediaInit /\ RestIdle

Next ==
    \/ Search
    \/ AddDocuments
    \/ GetCollectionStats
    \/ DeleteDocumentByName
    \/ ClearAllData

Spec == Init /\ [][Next]_vars

\* the dual store, built and left alone
DualIdle ==
    /\ chroma = <<>>
    /\ qdrant = <<>>
    /\ initRaised = FALSE
    /\ qdrant_online = Dual_init(FALSE)
    /\ qdrant_exists = TRUE
    /\ last = NoCall
    /\ remoteSearchRaised = FALSE
    /\ everFailed = FALSE
    /\ cleared = None

AddAssociation ==
    \E document_name \in DocNames, media_items \in MediaLists, page_number \in Pages :
        /\ Len(associations) < MaxAssoc
        /\ associations' = add_association(associations, document_name, media_items,
                                           page_number, None, None)
        /\ lastMedia' = [op |-> "add_association",
                         args |-> [document_name |-> document_name,
                                   page_number |-> page_number],
                         ret |-> <<>>]
        /\ UNCHANGED outsideIndex

FindMediaByDocument ==
    \E document_name \in QueryNames, page_number \in Pages :
        /\ lastMedia' = [op |-> "find_media_by_document",
                         args |-> [document_name |-> document_name,
                                   page_number |-> page_number],
                         ret |-> find_media_by_document(associations, document_name,
                                                        page_number)]
        /\ UNCHANGED <<associations, outsideIndex>>

MediaNext ==
    \/ AddAssociation
    \/ FindMediaByDocument

\* one MultimediaManager instance and its calls
InitMedia == DualIdle /\ MediaInit /\ RestIdle

MediaSpec == InitMedia /\ [][MediaNext]_vars

-----------------------------------------------------------------------------
(* Keyword search and removal.  Sections, keywords and queries are text    *)
(* over the letters a, b, c, the capitals A, B and the blank.              *)

\* most associations the index holds when keywords are searched
MaxKeywordAssoc == 3

\* str.lower() of one character
LowerChar(c) == CASE c = "A" -> "a" [] c = "B" -> "b" [] OTHER -> c

\* str.lower()
Lower(s) == [i \in 1..Len(s) |-> LowerChar(s[i])]

\* needle in haystack, on str
IsSubstring(needle, haystack) ==
    \E i \in 0..(Len(haystack) - Len(needle)) :
        SubSeq(haystack, i + 1, i + Len(needle)) = needle

RECURSIVE SplitLoop(_, _)
\* the scan of str.split(): word is the run of non-blank characters read so far
SplitLoop(s, word) ==
    LET done == IF word = <<>> THEN <<>> ELSE <<word>>
    IN IF s = <<>> THEN done
       ELSE IF Head(s) = " " THEN done \o SplitLoop(Tail(s), <<>>)
       ELSE SplitLoop(Tail(s), Append(word, Head(s)))

\* str.split(): the maximal runs of non-blank characters, in order
Split(s) == SplitLoop(s, <<>>)

\* "Score por seção": what the section adds to the score
SectionScore(section, query_lower) ==
    IF section # None /\ section[1] # <<>> /\ IsSubstring(Lower(section[1]), query_lower)
    THEN 10 ELSE 0

\* KeywordScore with a fault: only whole words count, the substring test is left out
KeywordScore_WordsOnly(keyword, query_lower, query_words) ==
    Cardinality(query_words \cap Range(Split(Lower(keyword)))) * 2

\* "Score por keywords": what one keyword adds to the score
KeywordScore(keyword, query_lower, query_words) ==
    LET keyword_lower == Lower(keyword)
        keyword_words == Range(Split(keyword_lower))
        common_words == query_words \cap keyword_words
    IN (IF IsSubstring(keyword_lower, query_lower) THEN 5 ELSE 0)
       + Cardinality(common_words) * 2

RECURSIVE KeywordsScore(_, _, _)
\* the loop over assoc.keywords
KeywordsScore(keywords, query_lower, query_words) ==
    IF keywords = <<>> THEN 0
    ELSE KeywordScore(Head(keywords), query_lower, query_words)
         + KeywordsScore(Tail(keywords), query_lower, query_words)

\* the score find_media_by_keywords gives an association
AssocScore(assoc, query) ==
    LET query_lower == Lower(query)
        query_words == Range(Split(query_lower))
    IN SectionScore(assoc.section, query_lower)
       + KeywordsScore(assoc.keywords, query_lower, query_words)

RECURSIVE ScoreLoop(_, _)
\* scored_results before sorting: the associations with a positive score, in order
ScoreLoop(assocs, query) ==
    IF assocs = <<>> THEN <<>>
    ELSE LET assoc == Head(assocs)
             score == AssocScore(assoc, query)
             rest == ScoreLoop(Tail(assocs), query)
         IN IF score > 0
            THEN << [association |-> assoc, score |-> score,
                     media_items |-> assoc.media_items] >> \o rest
            ELSE rest

\* StaysAhead with a fault: an entry of equal score gives way to r
StaysAhead_OnlyIfHigher(entry, r) == entry.score > r.score

\* under a stable sort with reverse=True, entry stays ahead of the later element r
StaysAhead(entry, r) == entry.score >= r.score

RECURSIVE InsertByScore(_, _)
\* a sorted list with r placed behind every entry that stays ahead of it
InsertByScore(sorted, r) ==
    IF sorted = <<>> THEN <<r>>
    ELSE IF StaysAhead(Head(sorted), r)
         THEN <<Head(sorted)>> \o InsertByScore(Tail(sorted), r)
         ELSE <<r>> \o sorted

RECURSIVE SortByScore(_)
\* scored_results.sort(key=score, reverse=True): stable, highest score first
SortByScore(results) ==
    IF results = <<>> THEN <<>>
    ELSE InsertByScore(SortByScore(SubSeq(results, 1, Len(results) - 1)),
                       results[Len(results)])

\* s[:k] of a list
SliceTo(s, k) ==
    IF k >= 0 THEN SubSeq(s, 1, Min(k, Len(s)))
    ELSE SubSeq(s, 1, Max(Len(s) + k, 0))

\* MultimediaManager.find_media_by_keywords
find_media_by_keywords(assocs, query, top_k) ==
    SliceTo(SortByScore(ScoreLoop(assocs, query)), top_k)

\* RemoveMatches with a fault: the section argument is not looked at
RemoveMatches_AnySection(assoc, document_name, section) ==
    assoc.document_name = document_name

\* the condition under which remove_association drops an association
RemoveMatches(assoc, document_name, section) ==
    /\ assoc.document_name = document_name
    /\ (section = None \/ assoc.section = section)

RECURSIVE RemoveLoop(_, _, _)
\* the list remove_association keeps
RemoveLoop(assocs, document_name, section) ==
    IF assocs = <<>> THEN <<>>
    ELSE LET rest == RemoveLoop(Tail(assocs), document_name, section)
         IN IF ~RemoveMatches(Head(assocs), document_name, section)
            THEN <<Head(assocs)>> \o rest
            ELSE rest

\* MultimediaManager.remove_association: the list kept and the number removed
remove_association(assocs, document_name, section) ==
    LET kept == RemoveLoop(assocs, document_name, section)
    IN [associations |-> kept, removed |-> Len(assocs) - Len(kept)]

\* the texts: "Ab", "a b", "B", "c" and the empty text
T_Ab == <<"A", "b">>
T_a_b == <<"a", " ", "b">>
T_B == <<"B">>
T_c == <<"c">>
T_empty == <<>>

\* the arguments of add_association when keywords are searched
KeywordAssocArgs ==
    { [document_name |-> <<"m">>, page_number |-> None, section |-> Some(T_Ab),
       keywords |-> Some(<<T_a_b>>), media_items |-> <<Img1>>],
      [document_name |-> <<"m">>, page_number |-> Some(1), section |-> None,
       keywords |-> Some(<<T_B, T_a_b>>), media_items |-> <<Vid2>>],
      [document_name |-> <<"d", "/", "p", "/", "m">>, page_number |-> None,
       section |-> Some(T_Ab), keywords |-> None, media_items |-> <<Img1>>],
      [document_name |-> <<"n">>, page_number |-> None, section |-> Some(T_empty),
       keywords |-> Some(<<T_empty>>), media_items |-> <<Vid2, Img1>>],
      [document_name |-> <<"n">>, page_number |-> Some(0), section |-> Some(T_c),
       keywords |-> Some(<<T_c, T_c>>), media_items |-> <<Img1>>] }

\* the query arguments: "", "ab", "a b", "b  a", "AB a b", "c"
KeywordQueries ==
    { <<>>, <<"a", "b">>, <<"a", " ", "b">>, <<"b", " ", " ", "a">>,
      <<"A", "B", " ", "a", " ", "b">>, <<"c">> }

\* the top_k arguments
TopKs == {1, 2, 3}

\* the document_name arguments of remove_association
RemoveNames == { <<"m">>, <<"d", "/", "p", "/", "m">>, <<"n">>, <<"p">> }

\* the section arguments of remove_association
RemoveSections == { None, Some(T_Ab), Some(T_empty) }

AddKeywordAssociation ==
    \E a \in KeywordAssocArgs :
        /\ Len(associations) < MaxKeywordAssoc
        /\ associations' = add_association(associations, a.document_name, a.media_items,
                                           a.page_number, a.section, a.keywords)
        /\ lastMedia' = [op |-> "add_association", args |-> a, index |-> associations,
                         ret |-> <<>>]
        /\ UNCHANGED outsideIndex

FindMediaByKeywords ==
    \E query \in KeywordQueries, top_k \in TopKs :
        /\ lastMedia' = [op |-> "find_media_by_keywords",
                         args |-> [query |-> query, top_k |-> top_k],
                         ret |-> find_media_by_keywords(associations, query, top_k)]
        /\ UNCHANGED <<associations, outsideIndex>>

RemoveAssociation ==
    \E document_name \in RemoveNames, section \in RemoveSections :
        LET out == remove_association(associations, document_name, section)
        IN /\ associations' = out.associations
           /\ lastMedia' = [op |-> "remove_association",
                            args |-> [document_name |-> document_name,
                                      section |-> section],
                            index |-> associations,
                            ret |-> out.removed]
           /\ UNCHANGED outsideIndex

KeywordNext ==
    \/ AddKeywordAssociation
    \/ FindMediaByKeywords
    \/ RemoveAssociation

\* one MultimediaManager instance: associations with sections and keywords
InitKeyword == DualIdle /\ MediaInit /\ RestIdle

KeywordSpec == InitKeyword /\ [][KeywordNext]_vars

-----------------------------------------------------------------------------
(* Persistence of the index.  A JSON object is a function from its keys to *)
(* their values.  The file is absent (None), or holds text that is not     *)
(* JSON, or holds a JSON object.                                           *)

\* most associations the index holds when it is saved and loaded
MaxSaved == 2

\* {k: v for k, v in d.items() if v is not None}, d given by its optional values
DropNone(d) == [k \in {key \in DOMAIN d : d[key] # None} |-> d[k][1]]

\* d.get(key) as an optional value
Lookup(d, key) == IF key \in DOMAIN d THEN Some(d[key]) ELSE None

\* MediaItem.to_dict
MediaItem_to_dict(item) ==
    DropNone([type |-> Some(item.type), url |-> Some(item.url), title |-> item.title])

\* MediaAssociation_to_dict with a fault: the section is not written
MediaAssociation_to_dict_NoSection(assoc) ==
    DropNone([document_name |-> Some(assoc.document_name),
              page_number |-> assoc.page_number,
              section |-> None,
              keywords |-> Some(assoc.keywords),
              media_items |-> Some([i \in 1..Len(assoc.media_items) |->
                                      MediaItem_to_dict(assoc.media_items[i])])])

\* MediaAssociation.to_dict
MediaAssociation_to_dict(assoc) ==
    DropNone([document_name |-> Some(assoc.document_name),
              page_number |-> assoc.page_number,
              section |-> assoc.section,
              keywords |-> Some(assoc.keywords),
              media_items |-> Some([i \in 1..Len(assoc.media_items) |->
                                      MediaItem_to_dict(assoc.media_items[i])])])

\* the file save_config writes
save_config(assocs) ==
    [json |-> TRUE,
     data |-> [version |-> "1.0",
               associations |-> [i \in 1..Len(assocs) |->
                                   MediaAssociation_to_dict(assocs[i])]]]

\* the fields of MediaItem that the model carries
ItemFields == {"type", "url", "title"}

\* the fields of MediaAssociation besides media_items
AssocFields == {"document_name", "page_number", "section", "keywords"}

\* MediaItem(**item) raises TypeError: an unknown key, or type or url missing
MediaItem_raises(item) ==
    ~(DOMAIN item \subseteq ItemFields) \/ ~({"type", "url"} \subseteq DOMAIN item)

\* MediaItem(**item)
MediaItem_from(item) ==
    [type |-> item.type, url |-> item.url, title |-> Lookup(item, "title")]

\* the media_items popped from an entry of the file
PoppedItems(assoc_data) == Get(Lookup(assoc_data, "media_items"), <<>>)

\* building the association of an entry raises TypeError
Entry_raises(assoc_data) ==
    \/ \E i \in 1..Len(PoppedItems(assoc_data)) : MediaItem_raises(PoppedItems(assoc_data)[i])
    \/ ~((DOMAIN assoc_data \ {"media_items"}) \subseteq AssocFields)
    \/ "document_name" \notin DOMAIN assoc_data

\* the association _load_config builds from an entry of the file
Entry_load(assoc_data) ==
    [document_name |-> assoc_data.document_name,
     page_number |-> Lookup(assoc_data, "page_number"),
     section |-> Lookup(assoc_data, "section"),
     keywords |-> Get(Lookup(assoc_data, "keywords"), <<>>),
     media_items |-> [i \in 1..Len(PoppedItems(assoc_data)) |->
                        MediaItem_from(PoppedItems(assoc_data)[i])]]

RECURSIVE LoadLoop(_, _)
\* the loop of _load_config: loaded is self.associations so far; an exception
\* ends the loop and leaves what was appended
LoadLoop(entries, loaded) ==
    IF entries = <<>> THEN [associations |-> loaded, caught |-> FALSE]
    ELSE IF Entry_raises(Head(entries)) THEN [associations |-> loaded, caught |-> TRUE]
    ELSE LoadLoop(Tail(entries), Append(loaded, Entry_load(Head(entries))))

\* MultimediaManager.__init__ with _load_config: the associations of the new
\* instance and whether an exception was caught on the way
load_config(file) ==
    IF file = None THEN [associations |-> <<>>, caught |-> FALSE]
    ELSE IF ~file[1].json THEN [associations |-> <<>>, caught |-> TRUE]
    ELSE LoadLoop(Get(Lookup(file[1].data, "associations"), <<>>), <<>>)

\* the arguments of add_association when the index is saved
SavedAssocArgs ==
    { [document_name |-> <<"m">>, page_number |-> Some(0), section |-> None,
       keywords |-> None, media_items |-> <<Vid2>>],
      [document_name |-> <<"d", "/", "p", "/", "m">>, page_number |-> None,
       section |-> Some(T_empty), keywords |-> Some(<<T_a_b, T_B>>),
       media_items |-> <<Img1, Vid2>>],
      [document_name |-> <<"n">>, page_number |-> Some(1), section |-> Some(T_Ab),
       keywords |-> Some(<<T_B>>), media_items |-> <<>>] }

\* a well-formed entry, one with a key MediaAssociation does not have, and one
\* whose media item lacks its url
GoodEntry == [document_name |-> <<"m">>, page_number |-> 1,
              media_items |-> << [type |-> "image", url |-> "u1"] >>]
BadEntry == [document_name |-> <<"n">>, colour |-> "red"]
BadItemEntry == [document_name |-> <<"n">>, media_items |-> << [type |-> "image"] >>]

\* text that json.load rejects
NotJson == [json |-> FALSE, data |-> <<>>]

\* a JSON object with the given entries
JsonFile(entries) == [json |-> TRUE, data |-> [version |-> "1.0", associations |-> entries]]

\* the files written from outside the program
EditedFiles ==
    { NotJson,
      [json |-> TRUE, data |-> [version |-> "1.0"]],
      JsonFile(<<BadEntry>>),
      JsonFile(<<GoodEntry, BadEntry>>),
      JsonFile(<<BadEntry, GoodEntry>>),
      JsonFile(<<GoodEntry, BadItemEntry>>) }

AddSavedAssociation ==
    \E a \in SavedAssocArgs :
        /\ Len(associations) < MaxSaved
        /\ associations' = add_association(associations, a.document_name, a.media_items,
                                           a.page_number, a.section, a.keywords)
        /\ lastMedia' = [op |-> "add_association",
                         args |-> [document_name |-> a.document_name,
                                   page_number |-> a.page_number],
                         ret |-> <<>>]
        /\ UNCHANGED outsideIndex

SaveConfig ==
    /\ config_file' = Some(save_config(associations))
    /\ savedFrom' = Some(associations)
    /\ lastMedia' = [op |-> "save_config", args |-> <<>>, ret |-> <<>>]
    /\ UNCHANGED <<associations, dualVars, lastQuery, writerVars, chatVars, asyncVars>>

\* the file is replaced from outside the program
EditConfigFile ==
    \E file \in EditedFiles :
        /\ config_file' = Some(file)
        /\ savedFrom' = None
        /\ UNCHANGED <<associations, lastMedia, dualVars, lastQuery, writerVars, chatVars, asyncVars>>

\* a fresh MultimediaManager on the same file takes the place of the instance
Reopen ==
    LET out == load_config(config_file)
    IN /\ associations' = out.associations
       /\ lastMedia' = [op |-> "init", args |-> <<>>, ret |-> [caught |-> out.caught]]
       /\ UNCHANGED <<config_file, savedFrom, dualVars, lastQuery, writerVars, chatVars, asyncVars>>

ConfigNext ==
    \/ AddSavedAssociation
    \/ SaveConfig
    \/ EditConfigFile
    \/ Reopen

\* one MultimediaManager instance at a time on one file
InitConfig == DualIdle /\ MediaInit /\ RestIdle

ConfigSpec == InitConfig /\ [][ConfigNext]_vars

-----------------------------------------------------------------------------
(* RAGEngine.query and the enrichment of its sources with media            *)
(* (src/src/rag_engine.py; RAGEngineAsync.query of rag_engine_async.py     *)
(* runs the same steps).  The similarity search and the language model are *)
(* external: a query is given the chunks the search returned.              *)

\* most associations the index holds when queries are enriched
MaxRagAssoc == 4

\* the top_k of the keyword search inside find_media_for_source
source_top_k == 3

\* the top_k of the keyword fallback of query
fallback_top_k == 2

\* more media items: a video at the url of Img1, an image at a third url, and
\* an image whose url is the single character x
Vid1 == [type |-> "video", url |-> "u1", title |-> None]
Img3 == [type |-> "image", url |-> "u3", title |-> None]
Tiny == [type |-> "image", url |-> "x", title |-> None]

\* len(url.strip()) of the urls above
UrlLen(url) == IF url = "x" THEN 1 ELSE 2

\* the url check of the aggregation: url and isinstance(url, str) and length > 1
UrlOk(url) == UrlLen(url) > 1

RECURSIVE UniqueLoop(_, _)
\* "Remove duplicatas" of find_media_for_source: the first item of each (type, url)
UniqueLoop(media_items, seen) ==
    IF media_items = <<>> THEN <<>>
    ELSE LET item == Head(media_items)
             item_id == <<item.type, item.url>>
         IN IF item_id \notin seen
            THEN <<item>> \o UniqueLoop(Tail(media_items), seen \cup {item_id})
            ELSE UniqueLoop(Tail(media_items), seen)

RECURSIVE SameDocumentMedia(_, _)
\* "Filtra resultados do mesmo documento": the media of the keyword results
\* whose association has source as its document_name
SameDocumentMedia(keyword_results, source) ==
    IF keyword_results = <<>> THEN <<>>
    ELSE LET result == Head(keyword_results)
             rest == SameDocumentMedia(Tail(keyword_results), source)
         IN IF result.association.document_name = source
            THEN result.media_items \o rest
            ELSE rest

\* TurnsToKeywords with a fault: the keywords are never searched
TurnsToKeywords_Never(query, media_items) == FALSE

\* "if query and not media_items" of find_media_for_source
TurnsToKeywords(query, media_items) ==
    query # None /\ query[1] # <<>> /\ media_items = <<>>

\* MultimediaManager.find_media_for_source
find_media_for_source(assocs, source, page, query) ==
    LET direct == find_media_by_document(assocs, source, page)
        media_items ==
            IF TurnsToKeywords(query, direct)
            THEN direct \o SameDocumentMedia(
                               find_media_by_keywords(assocs, query[1], source_top_k), source)
            ELSE direct
    IN UniqueLoop(media_items, {})

\* "Adiciona mídia ao source": the copy of a source with its media, the media
\* key absent (None) when there is none
EnrichedSource(source, media_items) ==
    [source |-> source.source, page |-> source.page,
     media |-> IF media_items # <<>>
               THEN Some([j \in 1..Len(media_items) |-> MediaItem_to_dict(media_items[j])])
               ELSE None]

\* MultimediaManager.enrich_sources_with_media: each source with its media
enrich_sources_with_media(assocs, sources, query) ==
    [i \in 1..Len(sources) |->
        EnrichedSource(sources[i],
                       find_media_for_source(assocs, sources[i].source,
                                             Some(sources[i].page), query))]

\* RAGEngine._format_sources: the source and page of each chunk, no media key
format_sources(relevant_docs) ==
    [i \in 1..Len(relevant_docs) |->
        [source |-> relevant_docs[i].source, page |-> relevant_docs[i].page,
         media |-> None]]

\* IsNewUrl with a fault: an item is told apart by its type and url
IsNewUrl_ByTypeAndUrl(item_dict, all_media) ==
    \A i \in 1..Len(all_media) :
        <<all_media[i].type, all_media[i].url>> # <<item_dict.type, item_dict.url>>

\* url not in seen_urls
IsNewUrl(item_dict, all_media) ==
    \A i \in 1..Len(all_media) : all_media[i].url # item_dict.url

RECURSIVE Collect(_, _)
\* the appends to all_media: each item whose url passes the check and is new
Collect(items, all_media) ==
    IF items = <<>> THEN all_media
    ELSE Collect(Tail(items),
                 IF UrlOk(Head(items).url) /\ IsNewUrl(Head(items), all_media)
                 THEN Append(all_media, Head(items))
                 ELSE all_media)

RECURSIVE MediaLists_of(_)
\* the media lists of the sources, one after the other ("source.get('media') or []")
MediaLists_of(sources) ==
    IF sources = <<>> THEN <<>>
    ELSE Get(Head(sources).media, <<>>) \o MediaLists_of(Tail(sources))

\* "Agregação" of query, RAGEngineAsync._aggregate_media
aggregate_media(sources) == Collect(MediaLists_of(sources), <<>>)

RECURSIVE ResultItems(_)
\* the media items of keyword results, as dicts, one result after the other
ResultItems(keyword_results) ==
    IF keyword_results = <<>> THEN <<>>
    ELSE [j \in 1..Len(Head(keyword_results).media_items) |->
            MediaItem_to_dict(Head(keyword_results).media_items[j])]
         \o ResultItems(Tail(keyword_results))

\* NeedsFallback with a fault: the keywords are searched for every query
NeedsFallback_Always(all_media) == TRUE

\* "if not all_media" of query
NeedsFallback(all_media) == all_media = <<>>

\* the media list of query: the aggregate, or the keyword fallback
query_media(assocs, sources, question) ==
    LET all_media == aggregate_media(sources)
    IN IF NeedsFallback(all_media)
       THEN Collect(ResultItems(find_media_by_keywords(assocs, question, fallback_top_k)),
                    all_media)
       ELSE all_media

\* NoRelevantDocs with a fault: an empty retrieval is treated like any other
NoRelevantDocs_Never(relevant_docs) == FALSE

\* "if not relevant_docs" of query
NoRelevantDocs(relevant_docs) == relevant_docs = <<>>

\* RAGEngine.query, given the chunks the search returned; enable_multimedia is
\* the engine's attribute
RAGEngine_query(assocs, question, relevant_docs, include_sources, include_media, enable_multimedia) ==
    IF NoRelevantDocs(relevant_docs)
    THEN [answer |-> "not_found", sources |-> Some(<<>>), num_sources |-> 0,
          media |-> <<>>, has_media |-> FALSE, enriched |-> FALSE]
    ELSE LET formatted == format_sources(relevant_docs)
             enriches == include_sources /\ include_media /\ enable_multimedia
             sources == IF enriches
                        THEN enrich_sources_with_media(assocs, formatted, Some(question))
                        ELSE formatted
             all_media == IF enriches THEN query_media(assocs, sources, question) ELSE <<>>
         IN [answer |-> "generated",
             sources |-> IF include_sources THEN Some(sources) ELSE None,
             num_sources |-> Len(relevant_docs),
             media |-> all_media,
             has_media |-> Len(all_media) > 0,
             enriched |-> enriches]

\* the arguments of add_association when queries are enriched
RagAssocArgs ==
    { [document_name |-> <<"m">>, page_number |-> Some(1), section |-> None,
       keywords |-> Some(<<T_a_b>>), media_items |-> <<Img1>>],
      [document_name |-> <<"d", "/", "n">>, page_number |-> None, section |-> None,
       keywords |-> Some(<<T_B>>), media_items |-> <<Tiny, Vid2, Vid1>>],
      [document_name |-> <<"m">>, page_number |-> Some(0), section |-> None,
       keywords |-> Some(<< <<"b", " ", "a">> >>), media_items |-> <<Img3>>] }

\* the question arguments: "", "a b", "c"
Questions == { <<>>, <<"a", " ", "b">>, <<"c">> }

\* the chunks a search returns, by source and page
RetrievedLists ==
    { <<>>,
      << [source |-> <<"m">>, page |-> 2] >>,
      << [source |-> <<"m">>, page |-> 1], [source |-> <<"n">>, page |-> 1] >>,
      << [source |-> <<"n">>, page |-> 1], [source |-> <<"m">>, page |-> 1] >> }

\* the include_sources and include_media arguments and the engine's
\* enable_multimedia: all on, and each of them off
QueryFlags ==
    { [include_sources |-> TRUE, include_media |-> TRUE, enable_multimedia |-> TRUE],
      [include_sources |-> FALSE, include_media |-> TRUE, enable_multimedia |-> TRUE],
      [include_sources |-> TRUE, include_media |-> FALSE, enable_multimedia |-> TRUE],
      [include_sources |-> TRUE, include_media |-> TRUE, enable_multimedia |-> FALSE] }

AddRagAssociation ==
    \E a \in RagAssocArgs :
        /\ Len(associations) < MaxRagAssoc
        /\ associations' = add_association(associations, a.document_name, a.media_items,
                                           a.page_number, a.section, a.keywords)
        /\ lastMedia' = [op |-> "add_association",
                         args |-> [document_name |-> a.document_name,
                                   page_number |-> a.page_number],
                         ret |-> <<>>]
        /\ UNCHANGED outsideIndex

Query ==
    \E question \in Questions, relevant_docs \in RetrievedLists, flags \in QueryFlags :
        /\ lastQuery' = [op |-> "query",
                         args |-> [question |-> question,
                                   relevant_docs |-> relevant_docs,
                                   include_sources |-> flags.include_sources,
                                   include_media |-> flags.include_media,
                                   enable_multimedia |-> flags.enable_multimedia],
                         index |-> associations,
                         ret |-> RAGEngine_query(associations, question, relevant_docs,
                                                 flags.include_sources,
                                                 flags.include_media,
                                                 flags.enable_multimedia)]
        /\ UNCHANGED <<associations, lastMedia, config_file, savedFrom, dualVars,
                       writerVars, chatVars, asyncVars>>

RagNext ==
    \/ AddRagAssociation
    \/ Query

\* one RAGEngine with its MultimediaManager
InitRag == DualIdle /\ MediaInit /\ RestIdle

RagSpec == InitRag /\ [][RagNext]_vars

-----------------------------------------------------------------------------
(* The upload route of the API (src/api/main.py), on a DualVectorStore.    *)
(* The PDF extractor is external: an upload is given the document the      *)
(* extractor reads from the file, or the extractor raises.                 *)

\* a second version of b.pdf, with one page
DocB1 == [filename |-> "b.pdf", pages |-> << [page_number |-> 1, nchunks |-> 1] >>]

\* file.filename of the upload requests: a.pdf, b.pdf and ../b.pdf
UploadNames == { <<"a.pdf">>, <<"b.pdf">>, <<"..", "/", "b.pdf">> }

\* the text pages the extractor finds in the uploaded file
UploadedPages == { DocA.pages, DocB.pages, DocB1.pages, <<>> }

RECURSIVE Join(_)
\* the text made of the given pieces
Join(pieces) == IF pieces = <<>> THEN "" ELSE Head(pieces) \o Join(Tail(pieces))

\* PDFExtractor.extract_from_file: the document is named filepath.name, and a
\* file without a text page raises like a file that cannot be read
extract_from_file(filepath, pages, fails) ==
    IF fails \/ pages = <<>> THEN [raised |-> TRUE, doc |-> None]
    ELSE [raised |-> FALSE,
          doc |-> Some([filename |-> Join(PathName(filepath)), pages |-> pages])]

\* upload_document: delete_document_by_name(filename), whose result is not
\* looked at, then extract_from_file(pdfs_dir / filename) and
\* add_documents([doc]); an exception of the extractor ends the request with
\* an HTTP error after the delete
upload_document(online, c, q, exists, filename, pages, extractFails, cDelFails, qDelFails, cAddFails, qAddFails) ==
    LET del == Dual_delete_document_by_name(online, c, q, exists, Join(filename),
                                            cDelFails, qDelFails)
        ext == extract_from_file(filename, pages, extractFails)
        add == Dual_add_documents(del.online, del.chroma, del.qdrant, del.exists,
                                  << ext.doc[1] >>, cAddFails, qAddFails)
    IN IF ext.raised
       THEN [ret |-> None, escaped |-> TRUE, calls |-> del.calls,
             online |-> del.online, chroma |-> del.chroma, qdrant |-> del.qdrant,
             exists |-> del.exists]
       ELSE [ret |-> Some([message |-> "processado com sucesso", stats |-> add.ret[1]]),
             escaped |-> FALSE, calls |-> del.calls \o add.calls,
             online |-> add.online, chroma |-> add.chroma, qdrant |-> add.qdrant,
             exists |-> add.exists]

UploadDocument ==
    \E filename \in UploadNames, pages \in UploadedPages, extractFails \in BOOLEAN,
       cDelFails \in BOOLEAN, qDelFails \in BOOLEAN,
       cAddFails \in BOOLEAN, qAddFails \in BOOLEAN :
        LET out == upload_document(qdrant_online, chroma, qdrant, qdrant_exists, filename,
                                   pages, extractFails, cDelFails, qDelFails,
                                   cAddFails, qAddFails)
        IN /\ Fits(out)
           /\ Apply("upload_document",
                    [filename |-> Join(filename), source |-> Join(PathName(filename)),
                     pages |-> pages], out)

UploadNext ==
    \/ UploadDocument
    \/ DeleteDocumentByName
    \/ GetCollectionStats

\* one DualVectorStore instance behind the document routes of the API
InitUpload == DualInit /\ MediaInit /\ RestIdle

UploadSpec == InitUpload /\ [][UploadNext]_vars

-----------------------------------------------------------------------------
(* Two writers on one file.  Two MultimediaManager instances, each with its *)
(* own in-memory list, save to the same config_file.  save_config opens the *)
(* file for writing, which empties it, and writes its text from the start   *)
(* when the file is closed; nothing keeps the other writer out in between.  *)

\* most associations a writer adds
MaxWriterAssoc == 2

RECURSIVE Sum(_)
\* sum(sizes)
Sum(sizes) == IF sizes = <<>> THEN 0 ELSE Head(sizes) + Sum(Tail(sizes))

\* len(key) of the keys json.dump writes
KeyLen == [version |-> 7, associations |-> 12, document_name |-> 13, page_number |-> 11,
           section |-> 7, keywords |-> 8, media_items |-> 11, type |-> 4, url |-> 3,
           title |-> 5]

\* len(str(n)) of a page number
IntLen(n) == IF n < 10 THEN 1 ELSE 2

\* the characters of a string in the text: the string between quotes
StrLen(n) == n + 2

\* the characters of a list or object with indent=2 whose members, of the given
\* sizes, are written at the given depth
BlockLen(depth, sizes) ==
    IF sizes = <<>> THEN 2
    ELSE 1 + Sum([i \in 1..Len(sizes) |-> 1 + 2 * depth + sizes[i]])
           + (Len(sizes) - 1) + 1 + 2 * (depth - 1) + 1

\* the characters of "key": value
MemberLen(key, valueLen) == StrLen(KeyLen[key]) + 2 + valueLen

\* the keys of an object in a fixed order
KeysOf(d) ==
    SelectSeq(<<"version", "associations", "document_name", "page_number", "section",
                "keywords", "media_items", "type", "url", "title">>,
              LAMBDA k : k \in DOMAIN d)

\* the characters of a media item's value under a key
ItemValueLen(item, key) ==
    IF key = "url" THEN StrLen(UrlLen(item.url))
    ELSE IF key = "type" THEN StrLen(5)
    ELSE StrLen(2)

\* the characters of a media item written at the given depth
ItemLen(item, depth) ==
    BlockLen(depth, [i \in 1..Len(KeysOf(item)) |->
                       MemberLen(KeysOf(item)[i], ItemValueLen(item, KeysOf(item)[i]))])

\* the characters of an association's value under a key, the association
\* written at the given depth
AssocValueLen(d, key, depth) ==
    IF key = "document_name" THEN StrLen(Len(d.document_name))
    ELSE IF key = "page_number" THEN IntLen(d.page_number)
    ELSE IF key = "section" THEN StrLen(Len(d.section))
    ELSE IF key = "keywords"
         THEN BlockLen(depth + 1, [i \in 1..Len(d.keywords) |-> StrLen(Len(d.keywords[i]))])
    ELSE BlockLen(depth + 1, [i \in 1..Len(d.media_items) |->
                                ItemLen(d.media_items[i], depth + 2)])

\* the characters of an association written at the given depth
AssocLen(d, depth) ==
    BlockLen(depth, [i \in 1..Len(KeysOf(d)) |->
                       MemberLen(KeysOf(d)[i], AssocValueLen(d, KeysOf(d)[i], depth))])

\* len of the text json.dump(data, f, indent=2, ensure_ascii=False) writes
DumpLen(data) ==
    BlockLen(1, << MemberLen("version", StrLen(3)),
                   MemberLen("associations",
                             BlockLen(2, [i \in 1..Len(data.associations) |->
                                            AssocLen(data.associations[i], 3)])) >>)

\* open(config_file, 'w'): the file exists and is empty
Truncated == [size |-> 0, holds |-> Some(NotJson)]

\* what the file is after text of the given data is written from its start
\* and the writer's handle is closed: text left beyond the end of the new
\* text stays, and json.load rejects the whole as "Extra data"
Overwrite(file, data) ==
    IF file.size > DumpLen(data.data)
    THEN [size |-> file.size, holds |-> Some(NotJson)]
    ELSE [size |-> DumpLen(data.data), holds |-> Some(data)]

\* the arguments of add_association of the two writers
WriterAssocArgs ==
    { [document_name |-> <<"m">>, page_number |-> Some(0), section |-> None,
       keywords |-> None, media_items |-> <<Vid2>>],
      [document_name |-> <<"n">>, page_number |-> Some(1), section |-> Some(T_Ab),
       keywords |-> Some(<<T_B>>), media_items |-> <<>>] }

\* writer w calls add_association
WriterAdd(w) ==
    \E a \in WriterAssocArgs :
        /\ writers[w].pc = "idle"
        /\ Len(writers[w].associations) < MaxWriterAssoc
        /\ writers' = [writers EXCEPT ![w].associations =
                          add_association(@, a.document_name, a.media_items,
                                          a.page_number, a.section, a.keywords)]
        /\ UNCHANGED <<shared_file, lastSave, dualVars, mediaVars, chatVars, asyncVars>>

\* writer w enters save_config: builds data and opens the file for writing
SaveOpen(w) ==
    /\ writers[w].pc = "idle"
    /\ writers' = [writers EXCEPT ![w].pc = "opened",
                                  ![w].data = save_config(writers[w].associations)]
    /\ shared_file' = Truncated
    /\ UNCHANGED <<lastSave, dualVars, mediaVars, chatVars, asyncVars>>

\* writer w leaves save_config: json.dump's text reaches the file as the
\* with block closes it
SaveWrite(w) ==
    /\ writers[w].pc = "opened"
    /\ shared_file' = Overwrite(shared_file, writers[w].data)
    /\ writers' = [writers EXCEPT ![w].pc = "idle", ![w].data = <<>>]
    /\ lastSave' = Some([writer |-> w, associations |-> writers[w].associations])
    /\ UNCHANGED <<dualVars, mediaVars, chatVars, asyncVars>>

WriterNext ==
    \/ \E w \in {1, 2} : WriterAdd(w)
    \/ \E w \in {1, 2} : SaveOpen(w)
    \/ \E w \in {1, 2} : SaveWrite(w)

\* two MultimediaManager instances built on a config_file that does not exist
InitWriter == DualIdle /\ MediaInit /\ RestIdle

WriterSpec == InitWriter /\ [][WriterNext]_vars

-----------------------------------------------------------------------------
(* Questions answered.  RAGEngine.query and RAGEngineAsync.query with the   *)
(* outcomes of the two calls they depend on: the vector search, which       *)
(* returns chunks or raises, and the language model, which returns an       *)
(* answer or raises.  An exception is its class and the text str(e) gives,  *)
(* which is empty for an exception raised without a message.                *)

\* most associations the index holds when questions are answered
MaxAnswerAssoc == 2

\* asyncio.TimeoutError(); the exception the client of the language model
\* raises once its timeout of 30 s has run out on each of its attempts, which
\* is of a class of the client library; and two other exceptions, with and
\* without message
TimeoutError == [class |-> "TimeoutError", text |-> ""]
APITimeoutError == [class |-> "APITimeoutError", text |-> "Request timed out."]
ExceptionWithText == [class |-> "Exception", text |-> ErrText]
ExceptionNoText == [class |-> "Exception", text |-> ""]
Exceptions == {TimeoutError, APITimeoutError, ExceptionWithText, ExceptionNoText}

\* the exception tells that a time limit has run out
SignalsTimeout(exc) == exc.class \in {"TimeoutError", "APITimeoutError"}

\* a call that returned a value, and a call that raised
Returned(value) == [raised |-> FALSE, value |-> value, exc |-> <<>>]
Raised(exc) == [raised |-> TRUE, value |-> <<>>, exc |-> exc]

\* str(e)
Str(exc) == exc.text

\* "except asyncio.TimeoutError" takes the exception
IsTimeoutError(exc) == exc.class = "TimeoutError"

\* f"Erro ao processar sua pergunta: {str(e)}", by the text of the exception
ErrorAnswer(text) == "failed: " \o text

\* the outcome of a query that returned a result, and of one whose exception
\* reached the caller; llm_invoked tells whether self.llm.invoke was called
Answered(result, llm_invoked) ==
    [escaped |-> FALSE, result |-> Some(result), llm_invoked |-> llm_invoked]
Escaped(llm_invoked) ==
    [escaped |-> TRUE, result |-> None, llm_invoked |-> llm_invoked]

\* the result of a query that went through, with the keys of the dict
ResultOf(r) ==
    [answer |-> r.answer, sources |-> r.sources, num_sources |-> r.num_sources,
     media |-> r.media, has_media |-> r.has_media, error |-> None]

\* RAGEngine.query with its search and its language-model call: an exception
\* of either leaves the method
RAGEngine_query_call(assocs, question, search, llm, include_sources, include_media, enable_multimedia) ==
    IF search.raised THEN Escaped(FALSE)
    ELSE IF NoRelevantDocs(search.value)
    THEN Answered(ResultOf(RAGEngine_query(assocs, question, search.value, include_sources,
                                           include_media, enable_multimedia)), FALSE)
    ELSE IF llm.raised THEN Escaped(TRUE)
    ELSE Answered(ResultOf(RAGEngine_query(assocs, question, search.value, include_sources,
                                           include_media, enable_multimedia)), TRUE)

\* RAGEngineAsync._empty_response
empty_response ==
    [answer |-> "not_found", sources |-> Some(<<>>), num_sources |-> 0,
     media |-> <<>>, has_media |-> FALSE, error |-> None]

\* the dict RAGEngineAsync.query returns from its "except asyncio.TimeoutError"
timeout_response ==
    [answer |-> "timeout_apology", sources |-> Some(<<>>), num_sources |-> 0,
     media |-> <<>>, has_media |-> FALSE, error |-> Some("timeout")]

\* the dict RAGEngineAsync.query returns from its "except Exception as e"
error_response(exc) ==
    [answer |-> ErrorAnswer(Str(exc)), sources |-> Some(<<>>), num_sources |-> 0,
     media |-> <<>>, has_media |-> FALSE, error |-> Some(Str(exc))]

\* the except clauses of RAGEngineAsync.query
query_except(exc) ==
    IF IsTimeoutError(exc) THEN timeout_response ELSE error_response(exc)

\* "all_media" of RAGEngineAsync._find_media_by_keywords_async, from the
\* results its job returned
fallback_media(keyword_results) == Collect(ResultItems(keyword_results), <<>>)

\* the result dict RAGEngineAsync.query builds once the search and the language
\* model have returned: enriched are the sources as the enrichment job
\* returned them, and keyword_results what the job of the keyword fallback,
\* a later job, returned
async_result(enriched, keyword_results, relevant_docs, include_sources, include_media, enable_multimedia) ==
    LET enriches == include_sources /\ include_media /\ enable_multimedia
        sources == IF enriches THEN enriched ELSE format_sources(relevant_docs)
        aggregate == aggregate_media(sources)
        all_media ==
            IF ~enriches THEN <<>>
            ELSE IF NeedsFallback(aggregate) THEN fallback_media(keyword_results)
            ELSE aggregate
    IN [answer |-> "generated",
        sources |-> IF include_sources THEN Some(sources) ELSE None,
        num_sources |-> Len(relevant_docs),
        media |-> all_media,
        has_media |-> Len(all_media) > 0]

\* RAGEngineAsync.query, with what its enrichment job and its fallback job
\* returned
RAGEngineAsync_query(enriched, keyword_results, search, llm, include_sources, include_media, enable_multimedia) ==
    IF search.raised THEN Answered(query_except(search.exc), FALSE)
    ELSE IF NoRelevantDocs(search.value) THEN Answered(empty_response, FALSE)
    ELSE IF llm.raised THEN Answered(query_except(llm.exc), TRUE)
    ELSE Answered(ResultOf(async_result(enriched, keyword_results, search.value,
                                        include_sources, include_media,
                                        enable_multimedia)), TRUE)

\* the language model was not called
NotInvoked == Returned("")

\* after the search the query returns: the search raised, or found nothing
ReturnsAfterSearch(search) == search.raised \/ NoRelevantDocs(search.value)

\* after the language model the query returns: the call raised, or no media
\* is asked for
ReturnsAfterAnswer(llm, include_sources, include_media, enable_multimedia) ==
    llm.raised \/ ~(include_sources /\ include_media /\ enable_multimedia)

\* the arguments of add_association when questions are answered
AnswerAssocArgs ==
    { [document_name |-> <<"m">>, page_number |-> Some(1), section |-> None,
       keywords |-> Some(<<T_a_b>>), media_items |-> <<Img1>>],
      [document_name |-> <<"m">>, page_number |-> None, section |-> None,
       keywords |-> Some(<<T_B>>), media_items |-> <<Vid2>>] }

\* the questions asked: "" and "a b"
AskedQuestions == { <<>>, <<"a", " ", "b">> }

\* what the vector search returns: nothing, or two chunks of one document
SearchResults ==
    { Returned(<<>>),
      Returned(<< [source |-> <<"m">>, page |-> 1], [source |-> <<"m">>, page |-> 2] >>) }

\* what the vector search does: it returns, or raises
SearchOutcomes == SearchResults \cup { Raised(exc) : exc \in Exceptions }

\* what self.llm.invoke does in its executor job: nothing times the job from
\* outside, so a timeout is the one the client signals with its own exception
LlmOutcomes ==
    { Returned("generated") } \cup { Raised(exc) : exc \in Exceptions \ {TimeoutError} }

\* the same for RAGEngine.query, which lets every exception through alike and
\* is given a search that returns nothing or one chunk
SyncSearchOutcomes ==
    { Returned(<<>>), Returned(<< [source |-> <<"m">>, page |-> 1] >>), Raised(ExceptionWithText) }
SyncLlmOutcomes == { Returned("generated"), Raised(ExceptionWithText) }

\* the callers of RAGEngineAsync.query, each with one call awaiting at most
Callers == {1, 2}

\* the include_sources argument, with include_media and enable_multimedia on
AnswerFlags ==
    { [include_sources |-> TRUE, include_media |-> TRUE, enable_multimedia |-> TRUE],
      [include_sources |-> FALSE, include_media |-> TRUE, enable_multimedia |-> TRUE] }

\* the flags of RAGEngine.query, whose enrichment is taken apart elsewhere
SyncFlags ==
    { [include_sources |-> TRUE, include_media |-> TRUE, enable_multimedia |-> TRUE] }

AddAnswerAssociation ==
    \E a \in AnswerAssocArgs :
        /\ Len(associations) < MaxAnswerAssoc
        /\ associations' = add_association(associations, a.document_name, a.media_items,
                                           a.page_number, a.section, a.keywords)
        /\ lastMedia' = [op |-> "add_association",
                         args |-> [document_name |-> a.document_name,
                                   page_number |-> a.page_number],
                         ret |-> <<>>]
        /\ UNCHANGED outsideIndex

\* RAGEngine.query is called
SyncQuery ==
    \E question \in AskedQuestions, search \in SyncSearchOutcomes,
       llm \in SyncLlmOutcomes, flags \in SyncFlags :
        /\ lastQuery' = [op |-> "query",
                         args |-> [question |-> question, search |-> search, llm |-> llm,
                                   include_sources |-> flags.include_sources],
                         index |-> associations,
                         ret |-> RAGEngine_query_call(associations, question, search, llm,
                                                      flags.include_sources,
                                                      flags.include_media,
                                                      flags.enable_multimedia)]
        /\ UNCHANGED <<associations, lastMedia, config_file, savedFrom, dualVars,
                       writerVars, chatVars, asyncVars>>

\* the record of a RAGEngineAsync.query that has returned, from what its jobs
\* returned to it
AsyncRecord(query, search, llm) ==
    [op |-> "async_query",
     args |-> [question |-> query.question, search |-> search, llm |-> llm,
               include_sources |-> query.include_sources],
     ret |-> RAGEngineAsync_query(query.enriched, query.results, search, llm,
                                  query.include_sources, query.include_media,
                                  query.enable_multimedia)]

\* an awaiting query goes on to its next step
Awaits(query, next) ==
    /\ inflight' = (inflight (-) SetToBag({query})) (+) SetToBag({next})
    /\ UNCHANGED lastQuery

\* an awaiting query returns
QueryReturns(query, record) ==
    /\ inflight' = inflight (-) SetToBag({query})
    /\ lastQuery' = record

\* RAGEngineAsync.query is called and awaits its search
AsyncQuery ==
    \E question \in AskedQuestions, flags \in AnswerFlags :
        /\ BagCardinality(inflight) < Cardinality(Callers)
        /\ inflight' = inflight (+) SetToBag({
               [pc |-> "search", question |-> question,
                include_sources |-> flags.include_sources,
                include_media |-> flags.include_media,
                enable_multimedia |-> flags.enable_multimedia,
                docs |-> <<>>, enriched |-> <<>>, results |-> <<>>] })
        /\ UNCHANGED <<associations, lastMedia, lastQuery, config_file, savedFrom, dualVars,
                       writerVars, chatVars, pool, overlapped, submitted>>

\* the search of an awaiting query is over: the query returns, or awaits the
\* language model and the formatting of its sources
AsyncSearched ==
    \E query \in BagToSet(inflight), search \in SearchOutcomes :
        /\ query.pc = "search"
        /\ IF ReturnsAfterSearch(search)
           THEN QueryReturns(query, AsyncRecord(query, search, NotInvoked))
           ELSE Awaits(query, [query EXCEPT !.pc = "answer", !.docs = search.value])
        /\ UNCHANGED <<associations, lastMedia, config_file, savedFrom, dualVars,
                       writerVars, chatVars, pool, overlapped, submitted>>

\* the language model of an awaiting query is over: the query returns, or
\* awaits its enrichment job
AsyncAnswered ==
    \E query \in BagToSet(inflight), llm \in LlmOutcomes :
        /\ query.pc = "answer"
        /\ IF ReturnsAfterAnswer(llm, query.include_sources, query.include_media,
                                 query.enable_multimedia)
           THEN QueryReturns(query, AsyncRecord(query, Returned(query.docs), llm))
           ELSE Awaits(query, [query EXCEPT !.pc = "enrich"])
        /\ UNCHANGED <<associations, lastMedia, config_file, savedFrom, dualVars,
                       writerVars, chatVars, pool, overlapped, submitted>>

\* the source the enrichment job of an awaiting query is at
SourceAt(query) == format_sources(query.docs)[Len(query.enriched) + 1]

\* the enrichment job has the media of the source it is at: it goes on to the
\* next source or, after the last one, is over, and the query waits for the
\* event loop to resume it
SourceEnriched(query, media_items) ==
    LET sources == Append(query.enriched, EnrichedSource(SourceAt(query), media_items))
    IN Awaits(query, [query EXCEPT !.enriched = sources,
                                   !.pc = IF Len(sources) < Len(query.docs)
                                          THEN "enrich" ELSE "enriched"])

\* the enrichment job of an awaiting query, in its worker thread, looks up its
\* next source by document and page in the index as it is now: the source has
\* its media, or the job turns to the keywords
AsyncEnrich ==
    \E query \in BagToSet(inflight) :
        /\ query.pc = "enrich"
        /\ LET media_items == find_media_by_document(associations, SourceAt(query).source,
                                                     Some(SourceAt(query).page))
           IN IF TurnsToKeywords(Some(query.question), media_items)
              THEN Awaits(query, [query EXCEPT !.pc = "keywords"])
              ELSE SourceEnriched(query, UniqueLoop(media_items, {}))
        /\ UNCHANGED <<associations, lastMedia, config_file, savedFrom, dualVars,
                       writerVars, chatVars, pool, overlapped, submitted>>

\* the enrichment job searches the keywords for the source it is at, in the
\* index as it is now, and keeps the media of the source's document
AsyncSourceKeywords ==
    \E query \in BagToSet(inflight) :
        /\ query.pc = "keywords"
        /\ LET keyword_results == find_media_by_keywords(associations, query.question,
                                                         source_top_k)
           IN SourceEnriched(query,
                             UniqueLoop(SameDocumentMedia(keyword_results,
                                                          SourceAt(query).source), {}))
        /\ UNCHANGED <<associations, lastMedia, config_file, savedFrom, dualVars,
                       writerVars, chatVars, pool, overlapped, submitted>>

\* the event loop resumes a query whose enrichment job is over: the query
\* aggregates the media of its sources and returns, or awaits the job of the
\* keyword fallback when there is none
AsyncAggregates ==
    \E query \in BagToSet(inflight) :
        /\ query.pc = "enriched"
        /\ IF NeedsFallback(aggregate_media(query.enriched))
           THEN Awaits(query, [query EXCEPT !.pc = "fallback"])
           ELSE QueryReturns(query, AsyncRecord(query, Returned(query.docs),
                                                Returned("generated")))
        /\ UNCHANGED <<associations, lastMedia, config_file, savedFrom, dualVars,
                       writerVars, chatVars, pool, overlapped, submitted>>

\* the job of the keyword fallback of an awaiting query, in its worker thread,
\* searches the keywords in the index as it is now, and the query waits for
\* the event loop to resume it
AsyncFallback ==
    \E query \in BagToSet(inflight) :
        /\ query.pc = "fallback"
        /\ Awaits(query, [query EXCEPT
                              !.pc = "found",
                              !.results = find_media_by_keywords(associations,
                                                                 query.question,
                                                                 fallback_top_k)])
        /\ UNCHANGED <<associations, lastMedia, config_file, savedFrom, dualVars,
                       writerVars, chatVars, pool, overlapped, submitted>>

\* the event loop resumes a query whose fallback job is over: the query takes
\* the media of the results and returns
AsyncReturns ==
    \E query \in BagToSet(inflight) :
        /\ query.pc = "found"
        /\ QueryReturns(query, AsyncRecord(query, Returned(query.docs),
                                           Returned("generated")))
        /\ UNCHANGED <<associations, lastMedia, config_file, savedFrom, dualVars,
                       writerVars, chatVars, pool, overlapped, submitted>>

AnswerNext ==
    \/ AddAnswerAssociation
    \/ SyncQuery
    \/ AsyncQuery
    \/ AsyncSearched
    \/ AsyncAnswered
    \/ AsyncEnrich
    \/ AsyncSourceKeywords
    \/ AsyncAggregates
    \/ AsyncFallback
    \/ AsyncReturns

\* one engine of each kind on one MultimediaManager
InitAnswer == DualIdle /\ MediaInit /\ RestIdle

AnswerSpec == InitAnswer /\ [][AnswerNext]_vars

-----------------------------------------------------------------------------
(* Removal followed by lookup, on the index with sections and keywords.     *)

\* find_media_by_document is called with a document name alone; the call
\* before it is kept with the record of this one
FindAfter ==
    \E document_name \in RemoveNames, page_number \in {None} :
        /\ lastMedia' = [op |-> "find_media_by_document",
                         args |-> [document_name |-> document_name,
                                   page_number |-> page_number],
                         after |-> [op |-> lastMedia.op, args |-> lastMedia.args],
                         ret |-> find_media_by_document(associations, document_name,
                                                        page_number)]
        /\ UNCHANGED <<associations, outsideIndex>>

RemoveNext ==
    \/ AddKeywordAssociation
    \/ RemoveAssociation
    \/ FindAfter

\* one MultimediaManager instance: associations added, removed and looked up
InitRemove == DualIdle /\ MediaInit /\ RestIdle

RemoveSpec == InitRemove /\ [][RemoveNext]_vars

-----------------------------------------------------------------------------
(* ChatInterface (src/src/chat_interface.py).  A message of the history is  *)
(* its role, its content and, for the assistant, num_sources; timestamps    *)
(* are left out.  rag_engine.chat_query returns an answer or raises.        *)

\* most entries chat_history holds before the conversation is left alone
MaxStored == 24

\* the values of Config.max_history: MAX_HISTORY=0, 1 or 2, and the default
MaxHistories == {0, 1, 2, default_max_history}

\* the message arguments of send_message
Messages == {"hello"}

\* what chat_query returns: the canned answer with no sources, or a generated one
ChatResponses == { [answer |-> "not_found", num_sources |-> 0],
                   [answer |-> "generated", num_sources |-> 1] }

\* lst[-n:] of Python for n >= 0: the whole list when n is 0 (-0 is 0), else
\* the last n elements
LastSlice(lst, n) ==
    IF n = 0 \/ n >= Len(lst) THEN lst ELSE SubSeq(lst, Len(lst) - n + 1, Len(lst))

\* the first step of send_message: the history cut to max_history * 2 entries
LimitHistory(history, maxh) ==
    IF Len(history) >= maxh * 2 THEN LastSlice(history, maxh * 2) ELSE history

\* the two entries send_message appends
UserEntry(message) == [role |-> "user", content |-> message, num_sources |-> None]
AssistantEntry(response) ==
    [role |-> "assistant", content |-> response.answer,
     num_sources |-> Some(response.num_sources)]

\* ChatInterface.send_message: the history it leaves, given what chat_query did
send_message(history, maxh, message, response, raises) ==
    LET handed == LimitHistory(history, maxh)
    IN [handed |-> handed,
        chat_history |-> IF raises THEN handed
                         ELSE handed \o << UserEntry(message), AssistantEntry(response) >>]

SendMessage ==
    \E message \in Messages, response \in ChatResponses, raises \in BOOLEAN :
        LET out == send_message(chat_history, max_history, message, response, raises)
        IN /\ Len(chat_history) < MaxStored
           /\ chat_history' = out.chat_history
           /\ lastChat' = [op |-> "send_message", message |-> message,
                           handed |-> out.handed, found |-> chat_history,
                           raised |-> raises]
           /\ UNCHANGED <<max_history, dualVars, mediaVars, writerVars, asyncVars>>

\* ChatInterface.clear_history
ClearHistory ==
    /\ chat_history' = <<>>
    /\ lastChat' = [op |-> "clear_history", message |-> <<>>, handed |-> <<>>,
                    found |-> chat_history, raised |-> FALSE]
    /\ UNCHANGED <<max_history, dualVars, mediaVars, writerVars, asyncVars>>

ChatNext ==
    \/ SendMessage
    \/ ClearHistory

\* ChatInterface(config, vectorstore, rag_engine) for a config with one of the
\* max_history values
InitChat ==
    /\ DualIdle /\ MediaInit
    /\ writers = [w \in {1, 2} |-> IdleWriter]
    /\ shared_file = NoFile
    /\ lastSave = None
    /\ max_history \in MaxHistories
    /\ chat_history = <<>>
    /\ lastChat = NoChat
    /\ AsyncIdle

ChatSpec == InitChat /\ [][ChatNext]_vars

-----------------------------------------------------------------------------
(* The asynchronous methods of the store (src/src/vectorstore_async.py).    *)
(* add_documents_async, search_async, get_collection_stats_async,           *)
(* delete_document_by_name_async and clear_all_data_async hand the          *)
(* synchronous method to the ThreadPoolExecutor, and nothing serialises two *)
(* jobs: a step is one backend call of one job, and between two calls of a  *)
(* job other jobs may make theirs.  add_documents, delete_document_by_name  *)
(* and clear_all_data call Local and then Remote; search asks Remote and,   *)
(* when that raised, Local; get_collection_stats calls collection.count()   *)
(* and collection.get() of Local, then collection_exists, get_collection    *)
(* and scroll of Remote.                                                    *)

\* max_workers of the ThreadPoolExecutor
max_workers == 4

\* most jobs handed to the executor
MaxJobs == 4

\* the pdf_documents arguments of add_documents_async
AsyncDocLists == { <<DocB>> }

\* the filename arguments of delete_document_by_name_async
AsyncFileNames == {"b.pdf"}

\* the arguments of search_async
AsyncSearches == { [query |-> "b.pdf", k |-> None, filter_dict |-> None] }

\* a job of the executor: its method and arguments, the backend call it makes
\* next, whether its Local and Remote calls so far failed, and what the calls
\* of get_collection_stats returned: Local's count and chunks, Remote's count
NewJob(op, pc, pdf_documents, filename, search, cFails, qFails, count) ==
    [op |-> op, pc |-> pc, pdf_documents |-> pdf_documents, filename |-> filename,
     query |-> search.query, k |-> search.k, filter_dict |-> search.filter_dict,
     cFails |-> cFails, qFails |-> qFails,
     count |-> count, data |-> <<>>, points_count |-> 0]

\* the arguments of a job that is no search
NoSearch == [query |-> "", k |-> None, filter_dict |-> None]

\* the arguments the job's method was called with
JobArgs(job) ==
    CASE job.op = "add_documents" -> [pdf_documents |-> job.pdf_documents]
      [] job.op = "delete_document_by_name" -> [filename |-> job.filename]
      [] job.op = "search" ->
            [query |-> job.query, k |-> job.k, filter_dict |-> job.filter_dict]
      [] OTHER -> <<>>

\* a job's add_documents, delete_document_by_name, clear_all_data or search on
\* the given Local and Remote collections
JobOutcome(job, c, q, cFails, qFails) ==
    CASE job.op = "add_documents" ->
            Dual_add_documents(qdrant_online, c, q, qdrant_exists,
                               job.pdf_documents, cFails, qFails)
      [] job.op = "delete_document_by_name" ->
            Dual_delete_document_by_name(qdrant_online, c, q, qdrant_exists,
                                         job.filename, cFails, qFails)
      [] job.op = "clear_all_data" ->
            Dual_clear_all_data(qdrant_online, c, q, qdrant_exists, cFails, qFails)
      [] job.op = "search" ->
            Dual_search(qdrant_online, c, q, qdrant_exists, job.query, job.k,
                        job.filter_dict, cFails, qFails)

\* a job's get_collection_stats, from what its backend calls returned
StatsOutcome(job, exists, points, qFails) ==
    merge_stats(qdrant_online, Chroma_stats(job.count, job.data, job.cFails),
                Qdrant_stats(exists, job.points_count, points, qFails),
                job.cFails, qFails)

\* run_in_executor: a thread of the pool takes the job
Submitted ==
    /\ BagCardinality(pool) < max_workers
    /\ submitted < MaxJobs
    /\ submitted' = submitted + 1
    /\ overlapped' = (overlapped \/ pool # EmptyBag)

\* after a backend call of a job (of the job being taken when running is
\* empty) the job goes on to its next call
GoesOn(running, next) ==
    /\ pool' = (pool (-) running) (+) SetToBag({next})
    /\ UNCHANGED <<last, remoteSearchRaised, everFailed>>

\* after a backend call of a job its method returns
Returns(running, job, out) ==
    /\ pool' = pool (-) running
    /\ last' = Record(job.op, JobArgs(job), qdrant_online, out)
    /\ remoteSearchRaised' =
           (remoteSearchRaised \/ (job.op = "search" /\ RaisedIn(out.calls, "qdrant")))
    /\ everFailed' =
           (everFailed
            \/ \E i \in 1..Len(out.calls) : out.calls[i].raised \/ out.calls[i].failed)

\* a job of add_documents, delete_document_by_name or clear_all_data is taken
\* and makes its call to Local; the method returns when it does not go on to
\* Remote
JobStarts(job) ==
    LET out == JobOutcome(job, chroma, qdrant, job.cFails, FALSE)
    IN /\ Submitted
       /\ Len(out.chroma) <= MaxChunks
       /\ chroma' = out.chroma
       /\ IF CallsTo(out.calls, "qdrant") # {}
          THEN GoesOn(EmptyBag, job)
          ELSE Returns(EmptyBag, job, out)
       /\ UNCHANGED <<qdrant, qdrant_online, qdrant_exists, initRaised, cleared, inflight,
                      mediaVars, writerVars, chatVars>>

\* add_documents_async
AddDocumentsAsync ==
    \E pdf_documents \in AsyncDocLists, cFails \in BOOLEAN :
        JobStarts(NewJob("add_documents", "qdrant", pdf_documents, "", NoSearch,
                         cFails, FALSE, 0))

\* delete_document_by_name_async
DeleteDocumentByNameAsync ==
    \E filename \in AsyncFileNames, cFails \in BOOLEAN :
        JobStarts(NewJob("delete_document_by_name", "qdrant", <<>>, filename, NoSearch,
                         cFails, FALSE, 0))

\* clear_all_data_async
ClearAllDataAsync ==
    \E cFails \in BOOLEAN :
        JobStarts(NewJob("clear_all_data", "qdrant", <<>>, "", NoSearch, cFails, FALSE, 0))

\* search_async: the job is taken and makes its first search, Remote's while
\* the flag is on; the method returns unless it falls back to Local
SearchAsync ==
    \E args \in AsyncSearches, cFails \in BOOLEAN, qFails \in BOOLEAN :
        LET job == NewJob("search", "chroma", <<>>, "", args, FALSE, qFails, 0)
            out == JobOutcome(job, chroma, qdrant, cFails, qFails)
        IN /\ Submitted
           /\ IF qdrant_online /\ CallsTo(out.calls, "chroma") # {}
              THEN GoesOn(EmptyBag, job)
              ELSE Returns(EmptyBag, job, out)
           /\ UNCHANGED <<chroma, qdrant, qdrant_online, qdrant_exists, initRaised,
                          cleared, inflight, mediaVars, writerVars, chatVars>>

\* a job makes its second call and its method returns: Remote's write of
\* add_documents, delete_document_by_name and clear_all_data, Local's search
\* of a search whose Remote search raised
JobReturns ==
    \E job \in BagToSet(pool), fails \in BOOLEAN :
        LET out == IF job.op = "search"
                   THEN JobOutcome(job, chroma, qdrant, fails, job.qFails)
                   ELSE JobOutcome(job, <<>>, qdrant, job.cFails, fails)
        IN /\ job.pc \in {"qdrant", "chroma"}
           /\ Len(out.qdrant) <= MaxChunks
           /\ qdrant' = IF job.op = "search" THEN qdrant ELSE out.qdrant
           /\ qdrant_exists' = out.exists
           /\ Returns(SetToBag({job}), job, out)
           /\ UNCHANGED <<chroma, qdrant_online, initRaised, cleared, overlapped, submitted,
                          inflight, mediaVars, writerVars, chatVars>>

\* get_collection_stats_async: the job is taken and calls collection.count()
\* of Local; a count of zero, or a failure, ends Local's part
GetCollectionStatsAsync ==
    \E cFails \in BOOLEAN :
        LET count == IF cFails THEN 0 ELSE Len(chroma)
            job == NewJob("get_collection_stats",
                          IF count > 0 THEN "chroma.get" ELSE "qdrant.collection_exists",
                          <<>>, "", NoSearch, cFails, FALSE, count)
        IN /\ Submitted
           /\ IF job.pc = "chroma.get" \/ qdrant_online
              THEN GoesOn(EmptyBag, job)
              ELSE Returns(EmptyBag, job, StatsOutcome(job, qdrant_exists, qdrant, FALSE))
           /\ UNCHANGED <<chroma, qdrant, qdrant_online, qdrant_exists, initRaised,
                          cleared, inflight, mediaVars, writerVars, chatVars>>

\* the job calls collection.get() of Local, which ends Local's part
StatsReadsLocal ==
    \E job \in BagToSet(pool), cFails \in BOOLEAN :
        LET next == [job EXCEPT !.pc = "qdrant.collection_exists", !.cFails = cFails,
                                !.count = IF cFails THEN 0 ELSE job.count,
                                !.data = IF cFails THEN <<>> ELSE chroma]
        IN /\ job.pc = "chroma.get"
           /\ IF qdrant_online
              THEN GoesOn(SetToBag({job}), next)
              ELSE Returns(SetToBag({job}), next,
                           StatsOutcome(next, qdrant_exists, qdrant, FALSE))
           /\ UNCHANGED <<chroma, qdrant, qdrant_online, qdrant_exists, initRaised,
                          cleared, overlapped, submitted, inflight,
                          mediaVars, writerVars, chatVars>>

\* the job calls collection_exists of Remote: the method returns when the
\* call fails or the collection does not exist
StatsAsksRemote ==
    \E job \in BagToSet(pool), qFails \in BOOLEAN :
        /\ job.pc = "qdrant.collection_exists"
        /\ IF qFails \/ ~qdrant_exists
           THEN Returns(SetToBag({job}), job, StatsOutcome(job, qdrant_exists, qdrant, qFails))
           ELSE GoesOn(SetToBag({job}), [job EXCEPT !.pc = "qdrant.get_collection"])
        /\ UNCHANGED <<chroma, qdrant, qdrant_online, qdrant_exists, initRaised,
                       cleared, overlapped, submitted, inflight,
                       mediaVars, writerVars, chatVars>>

\* the job calls get_collection of Remote: the method returns when the call
\* fails or the count is zero
StatsCountsRemote ==
    \E job \in BagToSet(pool), qFails \in BOOLEAN :
        LET next == [job EXCEPT !.pc = "qdrant.scroll", !.points_count = Len(qdrant)]
        IN /\ job.pc = "qdrant.get_collection"
           /\ IF qFails \/ next.points_count = 0
              THEN Returns(SetToBag({job}), job, StatsOutcome(next, TRUE, qdrant, qFails))
              ELSE GoesOn(SetToBag({job}), next)
           /\ UNCHANGED <<chroma, qdrant, qdrant_online, qdrant_exists, initRaised,
                          cleared, overlapped, submitted, inflight,
                          mediaVars, writerVars, chatVars>>

\* the job calls scroll of Remote and the method returns
StatsScrollsRemote ==
    \E job \in BagToSet(pool), qFails \in BOOLEAN :
        /\ job.pc = "qdrant.scroll"
        /\ Returns(SetToBag({job}), job, StatsOutcome(job, TRUE, qdrant, qFails))
        /\ UNCHANGED <<chroma, qdrant, qdrant_online, qdrant_exists, initRaised,
                       cleared, overlapped, submitted, inflight,
                       mediaVars, writerVars, chatVars>>

AsyncNext ==
    \/ AddDocumentsAsync
    \/ SearchAsync
    \/ GetCollectionStatsAsync
    \/ DeleteDocumentByNameAsync
    \/ ClearAllDataAsync
    \/ JobReturns
    \/ StatsReadsLocal
    \/ StatsAsksRemote
    \/ StatsCountsRemote
    \/ StatsScrollsRemote

\* one DualVectorStore of vectorstore_async.py with Remote online
InitAsync == DualIdle /\ MediaInit /\ RestIdle

AsyncSpec == InitAsync /\ [][AsyncNext]_vars

-----------------------------------------------------------------------------
(* Claims about DualVectorStore *)

\* the list Local's search returns for the arguments of the last call
LocalAnswer == Chroma_search(chroma, last.args.query, last.args.k, last.args.filter_dict, FALSE).ret

\* the list Remote's search returns for the arguments of the last call
RemoteAnswer == Qdrant_search(qdrant, last.args.query, last.args.k, last.args.filter_dict, FALSE).ret

\* the origin tags of a returned result list
Origins(ret) == {ret[1][i].origin : i \in 1..Len(ret[1])}

\* C1: a search made while Remote is marked online and in which Remote's search
\* raises consults Local next and returns exactly Local's list for the same
\* (query, k, filter), every result tagged with Local's origin; no exception
\* reaches the caller.
C1_FallbackReturnsLocal ==
    (last.op = "search" /\ last.online /\ RaisedIn(last.calls, "qdrant")
        /\ ~RaisedIn(last.calls, "chroma"))
    => /\ last.calls = << Call("qdrant", "search", TRUE, TRUE),
                          Call("chroma", "search", FALSE, FALSE) >>
       /\ ~last.escaped
       /\ last.ret = LocalAnswer
       /\ Origins(last.ret) \subseteq {LocalTag}

\* C1 witness: Remote raised, and the fallback returned Local's non-empty list
C1_Witness ==
    /\ last.op = "search" /\ last.online
    /\ RaisedIn(last.calls, "qdrant")
    /\ last.ret # None /\ last.ret # Some(<<>>)
    /\ last.ret = LocalAnswer

\* C2 as stated: once Remote's search has raised in a search call, Remote is
\* marked offline.
C2_SearchFailureMarksOffline == remoteSearchRaised => ~qdrant_online

\* C2 as amended: a search call in which Remote's search raised leaves Remote
\* marked online (the flag is cleared at construction only), and every later
\* call still invokes the Remote adapter.
C2_SearchFailureKeepsOnline ==
    remoteSearchRaised => (qdrant_online /\ CallsTo(last.calls, "qdrant") # {})

\* C2 witness: after a search in which Remote raised, an add_documents call
\* has written to Remote
C2_Witness ==
    /\ remoteSearchRaised
    /\ last.op = "add_documents"
    /\ CallsTo(last.calls, "qdrant") # {}
    /\ qdrant # <<>>

\* C3: when constructing the Remote adapter raised, the instance is built with
\* Remote marked offline, and whatever calls follow Remote stays offline and
\* the Remote adapter is not invoked.
C3_InitFailureIsPermanent ==
    initRaised => (~qdrant_online /\ ~last.online /\ CallsTo(last.calls, "qdrant") = {})

\* C3 witness: construction raised and a later add_documents wrote to Local only
C3_Witness ==
    /\ initRaised
    /\ last.op = "add_documents"
    /\ chroma # <<>>
    /\ qdrant = <<>>

\* C4: search is sequential and the first answerer wins: Local is consulted
\* only when Remote was offline or raised in this call; when Remote returns,
\* even an empty list, that list is the result, tagged by Remote, and Local is
\* not consulted; a result never mixes the two origins.
C4_FirstAnswererWins ==
    last.op = "search"
    => /\ CallsTo(last.calls, "chroma") # {}
            => (~last.online \/ RaisedIn(last.calls, "qdrant"))
       /\ (last.online /\ ~RaisedIn(last.calls, "qdrant"))
            => /\ last.calls = << Call("qdrant", "search", FALSE, FALSE) >>
               /\ last.ret = RemoteAnswer
               /\ Origins(last.ret) \subseteq {RemoteTag}
       /\ last.ret # None => Cardinality(Origins(last.ret)) <= 1

\* C4 witness: Remote answered with an empty list although Local holds matches
C4_Witness ==
    /\ last.op = "search" /\ last.online
    /\ ~RaisedIn(last.calls, "qdrant")
    /\ last.ret = Some(<<>>)
    /\ LocalAnswer # Some(<<>>)


\* C5: an add_documents call made with Remote online invokes Local's add and
\* then Remote's add, each exactly once, whether or not Local's add raised;
\* a raise by either is caught and reported in the stats the call returns.
C5_AddAttemptsBoth ==
    (last.op = "add_documents" /\ last.online)
    => /\ Len(last.calls) = 2
       /\ last.calls[1].backend = "chroma" /\ last.calls[1].op = "add_documents"
       /\ last.calls[2].backend = "qdrant" /\ last.calls[2].op = "add_documents"
       /\ ~last.escaped /\ last.ret # None
       /\ last.ret[1].chroma = (IF last.calls[1].raised THEN ErrText ELSE "OK")
       /\ last.ret[1].qdrant = (IF last.calls[2].raised THEN ErrText ELSE "OK")

\* C5 witness: Local's add raised, Remote's add was still made and succeeded,
\* so that only Remote holds the chunks
C5_Witness ==
    /\ last.op = "add_documents" /\ last.online
    /\ last.calls[1].raised /\ ~last.calls[2].raised
    /\ chroma = <<>>
    /\ qdrant = AllChunks(last.args.pdf_documents)
    /\ qdrant # <<>>
    /\ last.ret # None

\* C6: no call of search, add_documents or get_collection_stats lets an
\* exception escape; each returns a value.
C6_NoExceptionEscapes ==
    last.op \in {"search", "add_documents", "get_collection_stats"}
    => (~last.escaped /\ last.ret # None)

\* the count a backend contributes to the merged stats of the last call:
\* 0 when it was not asked or its stats failed
Contributes(backend) ==
    CallsTo(last.calls, backend) # {} /\ ~FailedIn(last.calls, backend)

\* C7: get_collection_stats returns as sources the sorted union of Local's and
\* Remote's source sets, as unique_sources its size, and as total_chunks the
\* larger of the two counts, an offline or failed backend counting as 0 chunks
\* and no sources.
C7_StatsMerge ==
    last.op = "get_collection_stats"
    => LET cSrc == IF Contributes("chroma") THEN SourcesOf(chroma) ELSE {}
           qSrc == IF Contributes("qdrant") THEN SourcesOf(qdrant) ELSE {}
           cCnt == IF Contributes("chroma") THEN Len(chroma) ELSE 0
           qCnt == IF Contributes("qdrant") THEN Len(qdrant) ELSE 0
           got == last.ret[1]
       IN /\ Range(got.sources) = cSrc \cup qSrc
          /\ Len(got.sources) = Cardinality(cSrc \cup qSrc)
          /\ \A i, j \in 1..Len(got.sources) :
                i < j => NameRank(got.sources[i]) < NameRank(got.sources[j])
          /\ got.unique_sources = Cardinality(cSrc \cup qSrc)
          /\ got.total_chunks = (IF cCnt >= qCnt THEN cCnt ELSE qCnt)

\* C7 witness: the backends hold different documents and both answered: the
\* sources are the union, the total is the larger count and not the sum
C7_Witness ==
    /\ last.op = "get_collection_stats" /\ last.online
    /\ ~FailedIn(last.calls, "chroma") /\ ~FailedIn(last.calls, "qdrant")
    /\ SourcesOf(chroma) = {"a.pdf"} /\ SourcesOf(qdrant) = {"b.pdf"}
    /\ last.ret[1].sources = <<"a.pdf", "b.pdf">>
    /\ last.ret[1].total_chunks = 2

\* C8: delete_document_by_name asks Local and then, when Remote is online,
\* Remote, each whatever the other answered, and returns true exactly when one
\* of the deletes it made returned true.
C8_DeleteBothOr ==
    last.op = "delete_document_by_name"
    => /\ last.calls[1].backend = "chroma"
       /\ Len(last.calls) = (IF last.online THEN 2 ELSE 1)
       /\ last.online => last.calls[2].backend = "qdrant"
       /\ last.ret = Some(\E i \in 1..Len(last.calls) : ~last.calls[i].failed)
       /\ ~FailedIn(last.calls, "chroma") => last.args.filename \notin SourcesOf(chroma)
       /\ (last.online /\ ~FailedIn(last.calls, "qdrant"))
            => last.args.filename \notin SourcesOf(qdrant)

\* C8 witness: Local's delete failed, Remote's was still made, removed the
\* document's chunks and made the call return true
C8_Witness ==
    /\ last.op = "delete_document_by_name" /\ last.online
    /\ FailedIn(last.calls, "chroma") /\ ~FailedIn(last.calls, "qdrant")
    /\ last.ret = Some(TRUE)
    /\ last.args.filename \in SourcesOf(chroma)
    /\ last.args.filename \notin SourcesOf(qdrant)


-----------------------------------------------------------------------------
(* Claims about MultimediaManager *)

\* the association at index i matches the last lookup, by the rule as stated:
\* equal base names, and the query page absent, or the stored page absent, or
\* both present and equal
MatchesLookup(i) ==
    LET a == associations[i]
        q == lastMedia.args
    IN /\ PathName(a.document_name) = PathName(q.document_name)
       /\ \/ q.page_number = None
          \/ a.page_number = None
          \/ (a.page_number # None /\ q.page_number # None
              /\ a.page_number[1] = q.page_number[1])

RECURSIVE MediaOfMatches(_)
\* the media of the matching associations among the first n, in insertion order
MediaOfMatches(n) ==
    IF n = 0 THEN <<>>
    ELSE MediaOfMatches(n - 1)
         \o (IF MatchesLookup(n) THEN associations[n].media_items ELSE <<>>)

\* C9: find_media_by_document returns, in insertion order, the media of exactly
\* the associations whose base name equals the query's and whose page is
\* compatible: query page absent, or stored page absent, or both equal.
C9_FindByDocument ==
    lastMedia.op = "find_media_by_document"
    => lastMedia.ret = MediaOfMatches(Len(associations))

\* C9 witness: a lookup with an explicit page found a page-less association
\* after it left out an association of the same document with another page
C9_Witness ==
    /\ lastMedia.op = "find_media_by_document"
    /\ lastMedia.args.page_number = Some(0)
    /\ Len(associations) = 2
    /\ associations[1].page_number = Some(1)
    /\ associations[2].page_number = None
    /\ PathName(associations[1].document_name) = PathName(lastMedia.args.document_name)
    /\ PathName(associations[2].document_name) = PathName(lastMedia.args.document_name)
    /\ lastMedia.ret = associations[2].media_items

\* long is bare behind a directory prefix: long = prefix / bare, bare a plain
\* file name
IsPrefixedFormOf(long, bare) ==
    /\ bare # <<>>
    /\ \A i \in 1..Len(bare) : bare[i] # "/"
    /\ Len(long) > Len(bare) + 1
    /\ long[Len(long) - Len(bare)] = "/"
    /\ SubSeq(long, Len(long) - Len(bare) + 1, Len(long)) = bare

\* C10: matching is symmetric under directory prefixes: a lookup without a page
\* returns the media of every association stored under a path-prefixed form of
\* the queried file name, and of every association stored under the bare name
\* of a path-prefixed query.
C10_PrefixSymmetric ==
    (lastMedia.op = "find_media_by_document" /\ lastMedia.args.page_number = None)
    => \A i \in 1..Len(associations) :
          (\/ IsPrefixedFormOf(associations[i].document_name, lastMedia.args.document_name)
           \/ IsPrefixedFormOf(lastMedia.args.document_name, associations[i].document_name))
          => Range(associations[i].media_items) \subseteq Range(lastMedia.ret)

\* C10 witness: a path-prefixed query found the association stored under the
\* bare name
C10_Witness ==
    /\ lastMedia.op = "find_media_by_document"
    /\ lastMedia.args.document_name = <<"d", "/", "p", "/", "m">>
    /\ Len(associations) = 1
    /\ associations[1].document_name = <<"m">>
    /\ lastMedia.ret = associations[1].media_items

-----------------------------------------------------------------------------
(* Claims about keyword search and removal *)

\* a text with its capitals folded to small letters
Fold(t) ==
    [i \in 1..Len(t) |-> IF t[i] \in {"a", "A"} THEN "a"
                         ELSE IF t[i] \in {"b", "B"} THEN "b" ELSE t[i]]

\* part occurs in text at some offset
OccursIn(part, text) ==
    \E offset \in 0..Len(text) :
        /\ offset + Len(part) <= Len(text)
        /\ \A j \in 1..Len(part) : text[offset + j] = part[j]

\* the whitespace-delimited words of a text
WordsOf(t) ==
    { SubSeq(t, p[1], p[2]) :
        p \in { q \in (1..Len(t)) \X (1..Len(t)) :
                  /\ q[1] <= q[2]
                  /\ \A n \in q[1]..q[2] : t[n] # " "
                  /\ (q[1] = 1 \/ t[q[1] - 1] = " ")
                  /\ (q[2] = Len(t) \/ t[q[2] + 1] = " ") } }

RECURSIVE SumTo(_, _)
\* f[1] + ... + f[n]
SumTo(f, n) == IF n = 0 THEN 0 ELSE f[n] + SumTo(f, n - 1)

\* the score the rule gives: 10 for a section found in the query, and for each
\* keyword 5 when it is found in the query plus 2 for each word it shares with it
RuleScore(assoc, query) ==
    LET q == Fold(query)
        kws == assoc.keywords
        perKeyword == [i \in 1..Len(kws) |->
                         (IF OccursIn(Fold(kws[i]), q) THEN 5 ELSE 0)
                         + 2 * Cardinality(WordsOf(Fold(kws[i])) \cap WordsOf(q))]
    IN (IF assoc.section # None /\ assoc.section[1] # <<>>
           /\ OccursIn(Fold(assoc.section[1]), q) THEN 10 ELSE 0)
       + SumTo(perKeyword, Len(kws))

\* C11: the score find_media_by_keywords reports for an association is, without
\* regard to case, 10 if the association has a section whose text is a substring
\* of the query, plus for each keyword 5 if the keyword is a substring of the
\* query, plus for each keyword 2 for every word the keyword and the query share.
C11_ScoreFormula ==
    lastMedia.op = "find_media_by_keywords"
    => \A i \in 1..Len(lastMedia.ret) :
          lastMedia.ret[i].score
              = RuleScore(lastMedia.ret[i].association, lastMedia.args.query)

\* a query with capitals scores 19 = 10 + 5 + 2 * 2 against an association whose
\* section and keyword it contains
C11_Witness ==
    /\ lastMedia.op = "find_media_by_keywords"
    /\ lastMedia.args.query # Fold(lastMedia.args.query)
    /\ \E i \in 1..Len(lastMedia.ret) :
          /\ lastMedia.ret[i].score = 19
          /\ lastMedia.ret[i].association.section # None
          /\ lastMedia.ret[i].association.keywords # <<>>

\* the positions of associations a returned list can stand for: one position
\* per entry, no position twice
Picks(n, m) == { f \in [1..n -> 1..m] : \A i, j \in 1..n : i # j => f[i] # f[j] }

\* position u with score su ranks before position v with score sv: a higher
\* score first, and among equal scores the association inserted first
RanksBefore(su, u, sv, v) == su > sv \/ (su = sv /\ u < v)

\* C12: find_media_by_keywords(query, top_k) returns only associations whose
\* score is above 0, by non-increasing score, associations of equal score in
\* the order in which they stand in the index, and at most top_k entries, the
\* top_k highest under that order.
C12_RankedTopK ==
    lastMedia.op = "find_media_by_keywords"
    => LET ret == lastMedia.ret
           query == lastMedia.args.query
           top_k == lastMedia.args.top_k
           score == [u \in 1..Len(associations) |-> RuleScore(associations[u], query)]
           positive == {u \in 1..Len(associations) : score[u] > 0}
       IN /\ Len(ret) = Min(top_k, Cardinality(positive))
          /\ \E pick \in Picks(Len(ret), Len(associations)) :
                /\ \A i \in 1..Len(ret) :
                      /\ pick[i] \in positive
                      /\ ret[i].association = associations[pick[i]]
                      /\ ret[i].score = score[pick[i]]
                      /\ ret[i].media_items = associations[pick[i]].media_items
                /\ \A i, j \in 1..Len(ret) :
                      i < j => RanksBefore(score[pick[i]], pick[i], score[pick[j]], pick[j])
                /\ \A i \in 1..Len(ret) :
                      \A u \in positive \ {pick[j] : j \in 1..Len(ret)} :
                          RanksBefore(score[pick[i]], pick[i], score[u], u)

\* two different associations of equal score are returned in index order while
\* a third, of lower score, is cut off by top_k
C12_Witness ==
    /\ lastMedia.op = "find_media_by_keywords"
    /\ lastMedia.args.top_k = 2
    /\ Len(lastMedia.ret) = 2
    /\ lastMedia.ret[1].score = lastMedia.ret[2].score
    /\ lastMedia.ret[1].association # lastMedia.ret[2].association
    /\ Len(associations) = 3
    /\ \A u \in 1..3 : RuleScore(associations[u], lastMedia.args.query) > 0

\* C13: remove_association(document, section) removes exactly the associations
\* whose document_name equals document and, when a section is given, whose
\* section equals it; it returns the number removed, and the associations left
\* keep their order.
C13_RemoveExactly ==
    lastMedia.op = "remove_association"
    => LET document == lastMedia.args.document_name
           section == lastMedia.args.section
           before == lastMedia.index
           Hit(a) == a.document_name = document
                     /\ (section = None \/ a.section = section)
       IN /\ associations = SelectSeq(before, LAMBDA a : ~Hit(a))
          /\ lastMedia.ret = Cardinality({i \in 1..Len(before) : Hit(before[i])})

\* a removal by document and section took one association out and left another
\* association of the same document, with a different section, in the index
C13_Witness ==
    /\ lastMedia.op = "remove_association"
    /\ lastMedia.args.section # None
    /\ lastMedia.ret = 1
    /\ \E i \in 1..Len(associations) :
          /\ associations[i].document_name = lastMedia.args.document_name
          /\ associations[i].section # lastMedia.args.section

-----------------------------------------------------------------------------
(* Claims about the persistence of the index *)

\* C14: for any list of associations built by add_association, save_config
\* followed by the construction of a fresh MultimediaManager on the file as
\* saved yields associations with the same document_name, page_number, section,
\* keywords and media_items as the saved ones.
C14_RoundTrip ==
    (lastMedia.op = "init" /\ savedFrom # None) => associations = savedFrom[1]

\* a fresh instance loaded, without a caught exception, two associations, among
\* them page 0, an absent section, an empty section and an item without title
C14_Witness ==
    /\ lastMedia.op = "init"
    /\ savedFrom # None
    /\ ~lastMedia.ret.caught
    /\ Len(associations) = 2
    /\ \E i \in 1..2 : associations[i].page_number = Some(0) /\ associations[i].section = None
    /\ \E i \in 1..2 : associations[i].section = Some(T_empty)
    /\ \E i \in 1..2 : \E j \in 1..Len(associations[i].media_items) :
          associations[i].media_items[j].title = None

\* C15: when loading the file fails, on malformed JSON or on a malformed
\* association entry anywhere in the array, the construction of
\* MultimediaManager does not raise and the index holds zero associations.
C15_FailedLoadLeavesNone ==
    (lastMedia.op = "init" /\ lastMedia.ret.caught) => associations = <<>>

-----------------------------------------------------------------------------
(* Claims about the media of a query result *)

\* the last query enriched its sources with media
Enriched == lastQuery.op = "query" /\ lastQuery.ret.enriched

\* the chunk records of the last query result
Chunks == Get(lastQuery.ret.sources, <<>>)

\* the media items the chunk records carry, in chunk order
Carried == MediaLists_of(Chunks)

\* the first position at which a list of items has the url
FirstAt(items, url) ==
    CHOOSE n \in 1..Len(items) :
        items[n].url = url /\ \A m \in 1..(n - 1) : items[m].url # url

\* C16: in every query result the flat media list has at most one entry per url:
\* of the media items of the chunk records that share a url, even with
\* different titles or types, the flat list holds only the first in chunk
\* order.  (An item whose url has a single character is left out altogether.)
C16_OneEntryPerUrl ==
    lastQuery.op = "query"
    => LET media == lastQuery.ret.media
       IN /\ \A i, j \in 1..Len(media) : i # j => media[i].url # media[j].url
          /\ \A i \in 1..Len(media) :
                (\E n \in 1..Len(Carried) : Carried[n].url = media[i].url)
                => media[i] = Carried[FirstAt(Carried, media[i].url)]
          /\ \A i, j \in 1..Len(media) :
                (i < j /\ \E n \in 1..Len(Carried) : Carried[n].url = media[i].url)
                => FirstAt(Carried, media[i].url) < FirstAt(Carried, media[j].url)
          /\ \A n \in 1..Len(Carried) :
                UrlOk(Carried[n].url)
                => \E i \in 1..Len(media) : media[i].url = Carried[n].url

\* the chunk records carry an image and, later, a video at the same url; the
\* flat list holds the image and no second entry for the url
C16_Witness ==
    /\ Enriched
    /\ \E n, m \in 1..Len(Carried) :
          /\ n < m
          /\ Carried[n].url = Carried[m].url
          /\ Carried[n].type # Carried[m].type
          /\ UrlOk(Carried[n].url)
          /\ n = FirstAt(Carried, Carried[n].url)
          /\ \E i \in 1..Len(lastQuery.ret.media) : lastQuery.ret.media[i] = Carried[n]

\* the media find_media_by_document gives a chunk, as dicts
DirectMedia(chunk) ==
    LET items == find_media_by_document(lastQuery.index, chunk.source, Some(chunk.page))
    IN [j \in 1..Len(items) |-> MediaItem_to_dict(items[j])]

\* the media, as dicts, of those of the three best keyword matches for the
\* question in the whole index whose document_name is the chunk's source
KeywordMedia(chunk) ==
    ResultItems(SelectSeq(
        find_media_by_keywords(lastQuery.index, lastQuery.args.question, source_top_k),
        LAMBDA r : r.association.document_name = chunk.source))

RECURSIVE FirstsByTypeUrl(_, _)
\* the first n items of a list without those that repeat an earlier (type, url)
FirstsByTypeUrl(items, n) ==
    IF n = 0 THEN <<>>
    ELSE FirstsByTypeUrl(items, n - 1)
         \o (IF \E m \in 1..(n - 1) :
                    items[m].type = items[n].type /\ items[m].url = items[n].url
             THEN <<>> ELSE <<items[n]>>)

\* the media a chunk record carries
Attached(chunk) == Get(chunk.media, <<>>)

\* C17 as stated: during enrichment the media attached to a chunk's record is
\* exactly the find_media_by_document(source, page) result for the chunk, with
\* no keyword scoring of the question: a chunk without directly associated
\* media gets none, even when a keyword association for the question matches.
C17_AttachedIsDirect ==
    Enriched => \A c \in 1..Len(Chunks) : Attached(Chunks[c]) = DirectMedia(Chunks[c])

\* C17 as amended: the media attached to a chunk's record is the
\* find_media_by_document(source, page) result without the items that repeat an
\* earlier (type, url); when that result is empty and the question is not, the
\* three best keyword matches for the question are taken from the whole index,
\* and the record gets the media, likewise without repeats, of those of the
\* three whose document_name equals the chunk's source (a match of the same
\* document that is not among the three best gives nothing); a record with no
\* such media carries none.
C17_AttachedIsDirectOrSameDocumentKeywords ==
    Enriched
    => \A c \in 1..Len(Chunks) :
          LET direct == DirectMedia(Chunks[c])
              chosen == IF direct = <<>> /\ lastQuery.args.question # <<>>
                        THEN KeywordMedia(Chunks[c]) ELSE direct
          IN Attached(Chunks[c]) = FirstsByTypeUrl(chosen, Len(chosen))

\* a chunk on a page without directly associated media carries the media of a
\* keyword match of its document that is among the three best of the index,
\* and not the media of another match of its document, which is not
C17_Witness ==
    /\ Enriched
    /\ \E c \in 1..Len(Chunks) :
          /\ DirectMedia(Chunks[c]) = <<>>
          /\ Attached(Chunks[c]) # <<>>
          /\ \E u \in 1..Len(lastQuery.index) :
                /\ lastQuery.index[u].document_name = Chunks[c].source
                /\ RuleScore(lastQuery.index[u], lastQuery.args.question) > 0
                /\ \A j \in 1..Len(Attached(Chunks[c])) :
                      Attached(Chunks[c])[j].url # lastQuery.index[u].media_items[1].url

RECURSIVE FirstsByUrl(_, _)
\* the first n items of a list without those whose url fails the check or
\* repeats an earlier one
FirstsByUrl(items, n) ==
    IF n = 0 THEN <<>>
    ELSE FirstsByUrl(items, n - 1)
         \o (IF ~UrlOk(items[n].url) \/ \E m \in 1..(n - 1) : items[m].url = items[n].url
             THEN <<>> ELSE <<items[n]>>)

\* the media of the two best keyword matches for the question, as dicts
FallbackMedia ==
    ResultItems(find_media_by_keywords(lastQuery.index, lastQuery.args.question,
                                       fallback_top_k))

\* an item is directly associated with one of the chunks
IsDirect(item) ==
    \E c \in 1..Len(Chunks) :
        \E j \in 1..Len(DirectMedia(Chunks[c])) : DirectMedia(Chunks[c])[j] = item

\* C18 as stated: find_media_by_keywords(question, top_k=2) is consulted for
\* the flat media list only when the aggregate, without repeated urls, of the
\* media attached to all chunks is empty; when the aggregate is not empty the
\* flat list holds only directly associated media; the items of the fallback
\* are again taken without repeated urls.
C18_FallbackOnlyWhenEmpty ==
    Enriched
    => LET aggregate == FirstsByUrl(Carried, Len(Carried))
           media == lastQuery.ret.media
       IN IF aggregate # <<>>
          THEN media = aggregate /\ \A i \in 1..Len(media) : IsDirect(media[i])
          ELSE media = FirstsByUrl(FallbackMedia, Len(FallbackMedia))

\* C18 as amended: the keyword search with top_k=2 is consulted for the flat
\* media list only when the aggregate, without repeated urls, of the media
\* attached to all chunks is empty; when the aggregate is not empty the flat
\* list is that aggregate, so it holds only media attached to the chunks; the
\* items of the fallback are again taken without repeated urls.
C18_FallbackOnlyWhenNothingAttached ==
    Enriched
    => LET aggregate == FirstsByUrl(Carried, Len(Carried))
           media == lastQuery.ret.media
       IN IF aggregate # <<>>
          THEN media = aggregate
          ELSE media = FirstsByUrl(FallbackMedia, Len(FallbackMedia))

\* no chunk carries media, three associations match the question by keyword,
\* and the flat list holds the media of the best two, a repeated url once
C18_Witness ==
    /\ Enriched
    /\ Carried = <<>>
    /\ Len(lastQuery.index) = 3
    /\ \A u \in 1..3 : RuleScore(lastQuery.index[u], lastQuery.args.question) > 0
    /\ Len(FallbackMedia) > Len(lastQuery.ret.media)
    /\ Len(lastQuery.ret.media) = 2
    /\ \A i \in 1..2 : lastQuery.ret.media[i].url # "u3"

-----------------------------------------------------------------------------
(* Claims about clearing and replacing *)

\* the stats record says that the store holds nothing
SaysEmpty(stats) == stats.total_chunks = Some(0) /\ stats.sources = <<>>

\* the last call is a get_collection_stats made right after a clear_all_data
StatsAfterClear == last.op = "get_collection_stats" /\ cleared # None

\* C19: clear_all_data() followed immediately by
\* get_collection_stats() on the same store, Local, Remote or Dual, reports
\* total_chunks = 0 and an empty source list, whatever chunks were stored
\* before the clear.
C19_ClearThenStatsIsEmpty ==
    StatsAfterClear
    => LET stats == last.ret[1]
       IN /\ stats.total_chunks = 0
          /\ stats.sources = <<>>
          /\ SaysEmpty(stats.details.chroma)
          /\ (last.online => SaysEmpty(stats.details.qdrant))

\* the chunks of a collection stored under the name the last upload indexed
ChunksOfFile(store) == SelectSeq(store, LAMBDA ch : ch.source = last.args.source)

\* C20: replacing a document through the upload first removes all prior chunks
\* whose source equals the file name from every active backend and only then
\* re-ingests: after a completed upload no active backend holds chunks of the
\* previous version alongside the new ones, so the chunks it holds under the
\* document's name are those of the uploaded document, or none where the add
\* failed.
C20_UploadReplaces ==
    (last.op = "upload_document" /\ ~last.escaped)
    => LET new == DocChunks(last.args.source, last.args.pages)
       IN /\ ChunksOfFile(chroma) \in {<<>>, new}
          /\ (last.online => ChunksOfFile(qdrant) \in {<<>>, new})

-----------------------------------------------------------------------------
(* Claims about concurrent writers *)

\* C21: once every save_config has returned, the file holds exactly the
\* association list of the writer whose save_config returned last, whatever
\* the other writer added to its own list.
C21_LastSaveWins ==
    (lastSave # None /\ \A w \in {1, 2} : writers[w].pc = "idle")
        => shared_file.holds = Some(save_config(lastSave[1].associations))

-----------------------------------------------------------------------------
(* Claims about the results DualVectorStore reports *)

\* C22: every add_documents call returns stats with a Local status ("OK" or
\* the error text), a Remote status ("OK", the error text or "Offline") and a
\* total_chunks field; the Remote status is "Offline" exactly when Remote is
\* marked offline, and then Remote's add is not invoked.
C22_AddResultShape ==
    last.op = "add_documents"
    => /\ ~last.escaped /\ last.ret # None
       /\ last.ret[1].chroma \in {"OK", ErrText}
       /\ last.ret[1].qdrant \in {"OK", ErrText, "Offline"}
       /\ last.ret[1].total_chunks # None
       /\ (last.ret[1].qdrant = "Offline") <=> ~last.online
       /\ ~last.online => CallsTo(last.calls, "qdrant") = {}

\* C23: get_collection_stats names the backend "Dual (Hibrido)" when Remote is
\* online at the time of the call and "Dual (Chroma Fallback)" otherwise; a
\* Remote that is marked offline, or whose stats retrieval fails, is never
\* reported as hybrid.
C23_HybridOnlyWhenRemoteAnswers ==
    last.op = "get_collection_stats"
    => /\ last.ret # None
       /\ last.ret[1].backend \in {"Dual (Hibrido)", "Dual (Chroma Fallback)"}
       /\ (last.ret[1].backend = "Dual (Hibrido)")
              <=> (last.online /\ ~FailedIn(last.calls, "qdrant"))

-----------------------------------------------------------------------------
(* Claims about the in-memory index *)

\* C24: an add_association call appends exactly one association, built from its
\* arguments, at the end of the list and leaves the associations already there
\* as they were, also when one with the same document, page and section
\* exists; so the list holds one more association equal to the new one than
\* before the call.
C24_AddAppendsOne ==
    lastMedia.op = "add_association"
    => LET before == lastMedia.index
           a == lastMedia.args
           new == associations[Len(associations)]
           Copies(list) == Cardinality({i \in 1..Len(list) : list[i] = new})
       IN /\ Len(associations) = Len(before) + 1
          /\ \A i \in 1..Len(before) : associations[i] = before[i]
          /\ new.document_name = a.document_name
          /\ new.page_number = a.page_number
          /\ new.section = a.section
          /\ new.keywords = (IF a.keywords = None THEN <<>> ELSE a.keywords[1])
          /\ new.media_items = a.media_items
          /\ Copies(associations) = Copies(before) + 1

\* the third of three add_association calls with the same arguments: the list
\* holds three equal associations
C24_Witness ==
    /\ lastMedia.op = "add_association"
    /\ Len(associations) = 3
    /\ associations[1] = associations[2]
    /\ associations[2] = associations[3]
    /\ associations[3].document_name = lastMedia.args.document_name

-----------------------------------------------------------------------------
(* Claims about the answers of the engines *)

\* C25: when the vector search returns no chunks, query (of either engine)
\* returns the canned no-relevant-information answer with num_sources = 0,
\* empty sources, empty media and has_media false, without invoking the
\* language model and without raising.
C25_EmptyRetrievalIsCanned ==
    (lastQuery.op \in {"query", "async_query"}
     /\ ~lastQuery.args.search.raised /\ lastQuery.args.search.value = <<>>)
    => /\ ~lastQuery.ret.escaped
       /\ ~lastQuery.ret.llm_invoked
       /\ lastQuery.ret.result # None
       /\ lastQuery.ret.result[1].answer = "not_found"
       /\ lastQuery.ret.result[1].num_sources = 0
       /\ lastQuery.ret.result[1].sources = Some(<<>>)
       /\ lastQuery.ret.result[1].media = <<>>
       /\ ~lastQuery.ret.result[1].has_media
       /\ lastQuery.ret.result[1].error = None

\* an empty retrieval for a question that matches a keyword of the index, the
\* language model being down: the canned answer comes back with no media
C25_Witness ==
    /\ lastQuery.op = "query"
    /\ ~lastQuery.args.search.raised /\ lastQuery.args.search.value = <<>>
    /\ lastQuery.args.llm.raised
    /\ lastQuery.args.question = T_a_b
    /\ find_media_by_keywords(lastQuery.index, T_a_b, fallback_top_k) # <<>>
    /\ lastQuery.ret.result # None
    /\ lastQuery.ret.result[1].answer = "not_found"

\* the exception that ended the last query, if one did: the search's, or the
\* language model's when the search had found chunks
Failure ==
    IF lastQuery.args.search.raised THEN Some(lastQuery.args.search.exc)
    ELSE IF lastQuery.args.search.value # <<>> /\ lastQuery.args.llm.raised
    THEN Some(lastQuery.args.llm.exc)
    ELSE None

\* the result carries no sources and no media
NothingFound(result) ==
    /\ result.num_sources = 0
    /\ result.sources = Some(<<>>)
    /\ result.media = <<>>
    /\ ~result.has_media

\* C26: RAGEngineAsync.query lets no timeout or failure of the search or of the
\* language model escape; on a timeout it returns num_sources = 0, empty
\* sources and media, the apology answer and error = "timeout"; on any other
\* exception it returns a result with a non-empty error field.
C26_TimeoutAndFailureAreReported ==
    lastQuery.op = "async_query"
    => /\ ~lastQuery.ret.escaped /\ lastQuery.ret.result # None
       /\ (Failure # None /\ SignalsTimeout(Failure[1]))
              => /\ NothingFound(lastQuery.ret.result[1])
                 /\ lastQuery.ret.result[1].answer = "timeout_apology"
                 /\ lastQuery.ret.result[1].error = Some("timeout")
       /\ (Failure # None /\ ~SignalsTimeout(Failure[1]))
              => /\ lastQuery.ret.result[1].error # None
                 /\ lastQuery.ret.result[1].error[1] # ""

\* what the code does instead: no exception escapes; asyncio.TimeoutError
\* gives the timeout result; every other exception, the timeout of the
\* language model among them, gives the answer that quotes str(e) and
\* error = str(e), empty when the exception has no message
FailureIsReportedWithItsText ==
    lastQuery.op = "async_query"
    => /\ ~lastQuery.ret.escaped /\ lastQuery.ret.result # None
       /\ (Failure # None /\ Failure[1].class = "TimeoutError")
              => lastQuery.ret.result[1] = timeout_response
       /\ (Failure # None /\ Failure[1].class # "TimeoutError")
              => /\ NothingFound(lastQuery.ret.result[1])
                 /\ lastQuery.ret.result[1].answer = ErrorAnswer(Failure[1].text)
                 /\ lastQuery.ret.result[1].error = Some(Failure[1].text)
       /\ Failure = None => lastQuery.ret.result[1].error = None

\* the search found chunks and the language model timed out: the query
\* returns the result of its "except Exception", not the timeout result
LlmTimeoutIsToldAsError ==
    /\ lastQuery.op = "async_query"
    /\ ~lastQuery.args.search.raised /\ lastQuery.args.search.value # <<>>
    /\ lastQuery.args.llm.raised /\ lastQuery.args.llm.exc = APITimeoutError
    /\ lastQuery.ret.llm_invoked
    /\ lastQuery.ret.result = Some(error_response(APITimeoutError))
    /\ lastQuery.ret.result[1].error = Some("Request timed out.")

-----------------------------------------------------------------------------
(* Claims about deletion and convergence of the two collections *)

\* no add_documents call stores a chunk of the file
NeverIndexed(filename) ==
    \A pdf_documents \in DocLists : filename \notin SourcesOf(AllChunks(pdf_documents))

\* C27: an adapter's delete_document_by_name returns true whenever the backend
\* delete did not raise, also when no stored chunk has the given source, and
\* false only when it raised; so DualVectorStore.delete_document_by_name
\* returns true exactly when a delete it made did not raise, and that for a
\* document that was never indexed too.
C27_DeleteTrueWithoutMatch ==
    last.op = "delete_document_by_name"
    => /\ ~last.escaped
       /\ \A i \in 1..Len(last.calls) : ~last.calls[i].raised
       /\ last.ret = Some(\E i \in 1..Len(last.calls) : ~last.calls[i].failed)
       /\ \A fails \in BOOLEAN :
             /\ Adapter_delete_document_by_name(chroma, last.args.filename, fails).ret = ~fails
             /\ Adapter_delete_document_by_name(qdrant, last.args.filename, fails).ret = ~fails

\* a document that was never indexed is deleted while other documents are
\* stored in both collections and no backend call fails: the call returns true
C27_Witness ==
    /\ last.op = "delete_document_by_name"
    /\ NeverIndexed(last.args.filename)
    /\ last.online /\ Len(last.calls) = 2
    /\ \A i \in 1..Len(last.calls) : ~last.calls[i].failed
    /\ chroma # <<>> /\ qdrant # <<>>
    /\ last.ret = Some(TRUE)

-----------------------------------------------------------------------------
(* Claims about removal and lookup *)

\* C28: a find_media_by_document(document) call that follows
\* remove_association(document) with no section returns an empty list,
\* whatever add_association calls built the index, associations stored with a
\* directory prefix in document_name included.
C28_RemovedIsNotFound ==
    (/\ lastMedia.op = "find_media_by_document"
     /\ lastMedia.after.op = "remove_association"
     /\ lastMedia.after.args.section = None
     /\ lastMedia.after.args.document_name = lastMedia.args.document_name)
    => lastMedia.ret = <<>>

\* how many times a chunk is stored in a collection
TimesStored(store, chunk) == Cardinality({i \in 1..Len(store) : store[i] = chunk})

\* how many chunks of a source a collection holds
ChunksOfSource(store, source) == Cardinality({i \in 1..Len(store) : store[i].source = source})

\* Local and Remote hold the same chunks the same number of times, and a stats
\* call that has just returned reports the count of each
Converged ==
    /\ Len(chroma) = Len(qdrant)
    /\ \A chunk \in Range(chroma) \cup Range(qdrant) :
          TimesStored(chroma, chunk) = TimesStored(qdrant, chunk)
    /\ \A source \in FileNames :
          ChunksOfSource(chroma, source) = ChunksOfSource(qdrant, source)
    /\ last.op = "get_collection_stats"
          => /\ last.ret[1].total_chunks = Len(chroma)
             /\ last.ret[1].total_chunks = Len(qdrant)

\* C29: while Remote is online and no backend call has raised since the two
\* collections were created empty, Local and Remote hold the same chunks the
\* same number of times after any sequence of add_documents,
\* delete_document_by_name and clear_all_data calls (searches and stats calls
\* between them included): the same sources with the same chunk counts; and
\* get_collection_stats then reports a total_chunks equal to the count of each
\* collection.
C29_BackendsConverge ==
    (qdrant_online /\ ~everFailed) => Converged

\* no backend call has raised, both collections hold the chunk of a.pdf and the
\* two chunks of b.pdf, and the stats call made in that state says three
C29_Witness ==
    /\ qdrant_online /\ ~everFailed
    /\ last.op = "get_collection_stats"
    /\ last.ret[1].total_chunks = 3
    /\ ChunksOfSource(chroma, "a.pdf") = 1 /\ ChunksOfSource(qdrant, "a.pdf") = 1
    /\ ChunksOfSource(chroma, "b.pdf") = 2 /\ ChunksOfSource(qdrant, "b.pdf") = 2

\* the jobs of VectorStoreAsync: the same holds once no job is running, when
\* no two jobs have run at the same time; an add job and a delete job of one
\* file that overlap can leave the collections different
JobsInTurnConverge ==
    (qdrant_online /\ ~everFailed /\ pool = EmptyBag /\ ~overlapped) => Converged

-----------------------------------------------------------------------------
(* Claims about ChatInterface *)

\* C30: after any send_message and clear_history calls chat_history has at
\* most 2 * max_history + 2 entries, the history handed to chat_query has at
\* most 2 * max_history entries, and a send_message that returns has appended
\* one user entry followed by one assistant entry to the history it kept.
C30_HistoryBounded ==
    /\ Len(chat_history) <= 2 * max_history + 2
    /\ lastChat.op = "send_message"
          => /\ Len(lastChat.handed) <= 2 * max_history
             /\ ~lastChat.raised
                   => /\ Len(chat_history) = Len(lastChat.handed) + 2
                      /\ SubSeq(chat_history, 1, Len(lastChat.handed)) = lastChat.handed
                      /\ chat_history[Len(chat_history) - 1].role = "user"
                      /\ chat_history[Len(chat_history) - 1].content = lastChat.message
                      /\ chat_history[Len(chat_history)].role = "assistant"

=============================================================================
